---- MODULE Spec2Model ----
(***************************************************************************)
(* The transcription backend of video-transcript-tool (src/server.py):     *)
(* the response cache with TTL, the global transcription lock, the async   *)
(* job map and the handlers transcribe_sync, transcribe_async and get_job. *)
(* The platform pipelines (extract_youtube, extract_tiktok,                *)
(* extract_facebook, extract_douyin_breakthrough) appear here by their     *)
(* outcomes: a result dict, a result dict carrying "error", or an          *)
(* exception that leaves the pipeline.                                     *)
(* The Whisper model manager (src/whisper_manager.py) with its one-worker  *)
(* executor, and _normalize_url over the characters of a URL, have         *)
(* specifications of their own: SpecManager and SpecNormalize.             *)
(***************************************************************************)
EXTENDS Integers, Sequences, FiniteSets, TLC

\* Bounds of the model.
NumReq == 2          \* request slots (each serves one sync or async request)
MaxTicks == 2        \* clock steps taken by Tick
NumCallers == 2      \* threads calling preload_model and require_model
MaxLoads == 3        \* loads submitted to the executor
MaxLen == 4          \* characters after the netloc of a URL to normalize
NumThreads == 2      \* threads taking the four locks
MaxClock == 7        \* seconds the extractor's clock runs

\* server.py:34 (default of the CACHE_TTL environment variable), seconds.
CACHE_TTL == 3600
\* The clock advances in steps of one TTL, so that an entry is seen at the
\* ages 0, TTL (the last second it is valid) and 2*TTL (expired).
TickStep == CACHE_TTL

Reqs == 1..NumReq
Free == 0            \* a lock nobody holds

(***************************************************************************)
(* URLs.  A URL is a record: host (the netloc of an https URL, as its      *)
(* dot-separated labels) and rest (what follows the netloc), a sequence of *)
(* tokens: the delimiters "/", "?", "#", ";" and, between them, non-empty  *)
(* runs of other characters.                                               *)
(***************************************************************************)
YT1 == [host |-> <<"www", "youtube", "com">>,
        rest |-> <<"/", "watch", "?", "v=dQw4w9WgXcQ">>]
YT1frag == [YT1 EXCEPT !.rest = YT1.rest \o <<"#", "t=43">>]
DY1 == [host |-> <<"www", "douyin", "com">>,
        rest |-> <<"/", "video", "/", "7123", "/">>]
FB1 == [host |-> <<"www", "facebook", "com">>, rest |-> <<"/", "reel", "/", "4411">>]
UNK1 == [host |-> <<"example", "org">>, rest |-> <<"/", "clip", "/", "5">>]
VT1 == [host |-> <<"vt", "tiktok", "com">>, rest |-> <<"/", "ZSabc", "/">>]
TT1 == [host |-> <<"www", "tiktok", "com">>,
        rest |-> <<"/", "@u", "/", "video", "/", "99">>]
Blank == [host |-> <<>>, rest |-> <<>>]

NoLang == "None"
\* The requests the handlers are driven with: handler, url and language.
Requests ==
    { [kind |-> "sync", url |-> YT1, language |-> NoLang],
      [kind |-> "async", url |-> YT1frag, language |-> "en"],
      [kind |-> "sync", url |-> FB1, language |-> NoLang],
      [kind |-> "sync", url |-> UNK1, language |-> NoLang] }
\* The requests driven against a status poller.
JobRequests ==
    { [kind |-> "async", url |-> DY1, language |-> NoLang],
      [kind |-> "sync", url |-> VT1, language |-> "en"],
      [kind |-> "sync", url |-> Blank, language |-> NoLang],
      [kind |-> "async", url |-> Blank, language |-> NoLang] }

\* The requests driven while the threads are kept running: the host of
\* Facebook's short links by both handlers and a host of no supported
\* platform, both without a path.
FBS == [host |-> <<"fb", "watch">>, rest |-> <<>>]
UNKS == [host |-> <<"example", "org">>, rest |-> <<>>]
LockRequests ==
    { [kind |-> "sync", url |-> FBS, language |-> NoLang],
      [kind |-> "async", url |-> FBS, language |-> "en"],
      [kind |-> "sync", url |-> UNKS, language |-> NoLang] }

\* The requests driven with language hints: one Facebook video, with and
\* without a fragment, under the hints "vi", "en" and none.
FB1frag == [FB1 EXCEPT !.rest = FB1.rest \o <<"#", "t=9">>]
LangRequests ==
    { [kind |-> "sync", url |-> FB1, language |-> "vi"],
      [kind |-> "async", url |-> FB1frag, language |-> "en"],
      [kind |-> "sync", url |-> FB1frag, language |-> NoLang] }

\* The bodies POST /api/transcribe is driven with: no url key, an empty
\* url, a url of blanks, a short link with blanks around it, a Douyin url.
Spaces == [host |-> <<" ", " ">>, rest |-> <<>>]
Padded(u) == [host |-> <<" ">> \o u.host, rest |-> u.rest \o <<" ">>]
SyncRequests ==
    { [kind |-> "sync", language |-> NoLang],
      [kind |-> "sync", url |-> Blank, language |-> NoLang],
      [kind |-> "sync", url |-> Spaces, language |-> NoLang],
      [kind |-> "sync", url |-> Padded(VT1), language |-> NoLang],
      [kind |-> "sync", url |-> DY1, language |-> NoLang] }

\* pat occurs in domain as a run of consecutive labels ('pat' in domain).
Contains(domain, pat) ==
    \E i \in 0..(Len(domain) - Len(pat)) :
        \A j \in 1..Len(pat) : domain[i + j] = pat[j]

\* transcript_extractor.py:81-94
identify_platform(url) ==
    LET domain == url.host IN
    IF Contains(domain, <<"youtube", "com">>) \/ Contains(domain, <<"youtu", "be">>)
        THEN "youtube"
    ELSE IF Contains(domain, <<"tiktok", "com">>) THEN "tiktok"
    ELSE IF Contains(domain, <<"facebook", "com">>) \/ Contains(domain, <<"fb", "watch">>)
        THEN "facebook"
    ELSE IF Contains(domain, <<"douyin", "com">>) THEN "douyin"
    ELSE "unknown"

\* transcript_extractor.py:66-79: the URLs the call may return.  A vt. or
\* vm.tiktok.com link is followed over the network: the redirect target
\* without its query, or the URL itself when the request fails.
expand_shortened_url(url) ==
    IF Contains(url.host, <<"vt", "tiktok", "com">>)
       \/ Contains(url.host, <<"vm", "tiktok", "com">>)
        THEN {TT1, url}
        ELSE {url}

(***************************************************************************)
(* _normalize_url (server.py:75-78) and the urllib.parse calls it makes,   *)
(* on the tokens after the netloc.                                         *)
(***************************************************************************)
\* str.find(t, from): the first index >= from of token t in s, 0 if none.
Find(s, t, from) ==
    LET hits == {i \in from..Len(s) : s[i] = t} IN
    IF hits = {} THEN 0 ELSE CHOOSE i \in hits : \A j \in hits : i <= j

\* str.rfind(t): the last index of token t in s, 0 if none.
RFind(s, t) ==
    LET hits == {i \in 1..Len(s) : s[i] = t} IN
    IF hits = {} THEN 0 ELSE CHOOSE i \in hits : \A j \in hits : i >= j

Before(s, i) == SubSeq(s, 1, i - 1)
After(s, i) == SubSeq(s, i + 1, Len(s))

\* urllib.parse._splitparams: the parameters of the last path segment.
_splitparams(path) ==
    LET i == IF RFind(path, "/") > 0 THEN Find(path, ";", RFind(path, "/"))
                                      ELSE Find(path, ";", 1) IN
    IF i = 0 THEN [path |-> path, params |-> <<>>]
             ELSE [path |-> Before(path, i), params |-> After(path, i)]

\* urllib.parse.urlparse: split off the fragment at the first "#", the
\* query at the first "?" before it, then the parameters.
urlparse(rest) ==
    LET h == Find(rest, "#", 1)
        nofrag == IF h = 0 THEN rest ELSE Before(rest, h)
        q == Find(nofrag, "?", 1)
        sp == _splitparams(IF q = 0 THEN nofrag ELSE Before(nofrag, q)) IN
    [path |-> sp.path, params |-> sp.params,
     query |-> IF q = 0 THEN <<>> ELSE After(nofrag, q),
     fragment |-> IF h = 0 THEN <<>> ELSE After(rest, h)]

\* ParseResult.geturl (urlunparse): a component is written, with its
\* delimiter, only when it is not empty.
geturl(p) ==
    p.path \o (IF p.params = <<>> THEN <<>> ELSE <<";">> \o p.params)
           \o (IF p.query = <<>> THEN <<>> ELSE <<"?">> \o p.query)
           \o (IF p.fragment = <<>> THEN <<>> ELSE <<"#">> \o p.fragment)

\* A strip that leaves the string as it is.
rstrip_nothing(s) == s

\* str.rstrip("/")
RECURSIVE rstrip(_)
rstrip(s) ==
    IF s # <<>> /\ s[Len(s)] = "/" THEN rstrip(Before(s, Len(s))) ELSE s

\* server.py:75-78: drop the fragment, then strip trailing slashes.
_normalize_url(url) ==
    [url EXCEPT !.rest = rstrip(geturl([urlparse(url.rest) EXCEPT !.fragment = <<>>]))]

VARIABLES
    now,       \* time.time(), seconds since startup
    cache,     \* _cache: normalized url -> [ts, data]
    tlock,     \* _transcription_lock: Free or the request holding it
    jobs,      \* _jobs: job id -> [status, result, created_at]
    jlock,     \* _jobs_lock: Free or the worker inside its critical section
    pc,        \* where each request's thread stands
    kind,      \* "sync" | "async" | "none"
    url,       \* the request's url (expanded once past the first cache check)
    lang,      \* the request's language hint
    result,    \* what the pipeline handed back to _do_transcribe
    resp,      \* what _do_transcribe returned
    http,      \* the status code the handler answered with (0: none yet)
    job,       \* the job id transcribe_async returned (0: none)
    heldAtSubmit, \* history: who held the transcription lock when
               \* transcribe_async registered the request's job
    gj,        \* the get_job poller: [pc, id, out, body]
    _model_name,   \* whisper_manager._model_name: the tracked model name
    _model_future, \* whisper_manager._model_future: the tracked load
    _model,        \* whisper_manager._model: the resident model
    _executor,     \* the loads submitted to _executor, in submission order
    call,      \* the threads inside require_model: [pc, name, future, ret]
    probe,     \* a URL under _normalize_url: [url, key, rekey, other, otherKey]
    hl,        \* the health caller: [pc, cache_size, active_jobs]
    px,        \* the pipeline invocation under way (its local variables)
    temp_dir,  \* the files in each extractor's temp_dir
    holder,    \* each of the four locks: Free or the thread holding it
    thread,    \* each thread's lock operations still to come: [st, todo]
    clock,     \* time.time() as the extractor reads it, in seconds
    last_request, \* extractor_yt.last_request: platform -> time
    rl         \* the call of _rate_limit under way: [pc, platform, now,
               \* prev, sleep_time]

reqVars == <<pc, kind, url, lang, result, resp, http, job, heldAtSubmit>>
srvVars == <<now, cache, tlock, jobs, jlock, reqVars, gj>>
mgrVars == <<_model_name, _model_future, _model, _executor, call>>
pipeVars == <<px, temp_dir>>
lockVars == <<holder, thread>>
rateVars == <<clock, last_request, rl>>
vars == <<srvVars, mgrVars, probe, hl, pipeVars, lockVars, rateVars>>

NoResult == [none |-> TRUE]
NoJob == 0
EmptyMap == [k \in {} |-> NoResult]

InitServer ==
    /\ now = 0
    /\ cache = EmptyMap
    /\ tlock = Free
    /\ jobs = EmptyMap
    /\ jlock = Free
    /\ pc = [r \in Reqs |-> "idle"]
    /\ kind = [r \in Reqs |-> "none"]
    /\ url = [r \in Reqs |-> Blank]
    /\ lang = [r \in Reqs |-> NoLang]
    /\ result = [r \in Reqs |-> NoResult]
    /\ resp = [r \in Reqs |-> NoResult]
    /\ http = [r \in Reqs |-> 0]
    /\ job = [r \in Reqs |-> NoJob]
    /\ heldAtSubmit = [r \in Reqs |-> Free]
    /\ gj = [pc |-> "idle", id |-> NoJob, out |-> "none", body |-> NoResult]

\* Whisper model names: the server's default (server.py:32) and another.
Names == {"small", "large-v3"}
Callers == 1..NumCallers
NoName == "None"     \* _model_name = None
NoFuture == 0        \* _model_future = None
\* _model = None; also the failure sentinel require_model returns.
NoModel == [name |-> NoName, load |-> NoFuture]
\* The model object whisper.load_model(name) makes in the load-th submitted
\* load: every load makes an object of its own.
Instance(name, load) == [name |-> name, load |-> load]
\* A thread outside the manager that has made no call yet.
NoCall == [pc |-> "idle", op |-> "none", name |-> NoName, future |-> NoFuture,
           ret |-> NoModel]

\* whisper_manager.py:19-23
InitManager ==
    /\ _model_name = NoName
    /\ _model_future = NoFuture
    /\ _model = NoModel
    /\ _executor = <<>>
    /\ call = [c \in Callers |-> NoCall]

\* No URL under normalization.
NoProbe == [url |-> Blank, key |-> NoResult, rekey |-> NoResult,
            other |-> NoResult, otherKey |-> NoResult]

\* No health call made yet.
NoHealth == [pc |-> "idle", cache_size |-> 0, active_jobs |-> 0]

\* The extractors server.py:58-60 constructs; each makes one temp_dir in its
\* constructor (transcript_extractor.py:44, douyin_breakthrough.py:27,
\* facebook_direct_fixed.py:27) and keeps it for every invocation.
Extractors == {"extractor_yt", "extractor_dy", "extractor_fb"}

\* Python's None for a text, a file, a candidate.
NoText == [of |-> "none", len |-> -1, inv |-> 0, cand |-> 0]
NoFile == [kind |-> "none", len |-> 0, inv |-> 0, cand |-> 0, lang |-> "none"]
NoCand == 0

\* No pipeline invocation under way, none made yet.
NoRun ==
    [pipeline |-> "none", inv |-> 0, pc |-> "idle", first |-> "none",
     called |-> {}, metadata |-> FALSE, audio_file |-> NoFile,
     transcript |-> NoText, method |-> 0, selected |-> 0, cands |-> 0,
     i |-> 0, tried |-> <<>>,
     successful_video_url |-> NoCand, out |-> NoResult]

InitExtractors ==
    /\ px = NoRun
    /\ temp_dir = [e \in Extractors |-> {}]

\* server.py:66, 72, 104 and whisper_manager.py:19
Locks == {"_transcription_lock", "_cache_lock", "_jobs_lock", "_lock"}
Threads == 1..NumThreads
InitLocks ==
    /\ holder = [l \in Locks |-> Free]
    /\ thread = [t \in Threads |-> [st |-> "idle", todo |-> <<>>]]

\* No time recorded.
NoTime == -1
NoRateCall == [pc |-> "idle", platform |-> "none", now |-> NoTime,
               prev |-> NoTime, sleep_time |-> 0]
\* transcript_extractor.py:34: self.last_request = {}
InitRate ==
    /\ clock = 0
    /\ last_request = EmptyMap
    /\ rl = NoRateCall

Init ==
    /\ InitServer /\ InitManager /\ probe = NoProbe
    /\ hl = NoHealth /\ InitExtractors /\ InitLocks /\ InitRate

(***************************************************************************)
(* The cache (server.py:71-97).                                            *)
(***************************************************************************)
\* dict.get(key, default)
Get(d, k, default) == IF k \in DOMAIN d THEN d[k] ELSE default

\* _cache_get with the age compared by >=: an entry expires a second early.
_cache_get_expires_early(u) ==
    LET key == _normalize_url(u) IN
    IF key \notin DOMAIN cache
        THEN [hit |-> FALSE, data |-> NoResult, cache |-> cache]
    ELSE IF now - cache[key].ts >= CACHE_TTL
        THEN [hit |-> FALSE, data |-> NoResult,
              cache |-> [k \in DOMAIN cache \ {key} |-> cache[k]]]
    ELSE [hit |-> TRUE, data |-> cache[key].data, cache |-> cache]

\* _cache_get without the age check: an entry never expires.
_cache_get_never_expires(u) ==
    LET key == _normalize_url(u) IN
    IF key \notin DOMAIN cache
        THEN [hit |-> FALSE, data |-> NoResult, cache |-> cache]
    ELSE [hit |-> TRUE, data |-> cache[key].data, cache |-> cache]

\* _cache_get restarting an entry's life when it is read.
_cache_get_refreshes(u) ==
    LET key == _normalize_url(u) IN
    IF key \notin DOMAIN cache
        THEN [hit |-> FALSE, data |-> NoResult, cache |-> cache]
    ELSE IF now - cache[key].ts > CACHE_TTL
        THEN [hit |-> FALSE, data |-> NoResult,
              cache |-> [k \in DOMAIN cache \ {key} |-> cache[k]]]
    ELSE [hit |-> TRUE, data |-> cache[key].data,
          cache |-> [cache EXCEPT ![key].ts = now]]

\* server.py:81-91: [hit, data, cache]: whether an entry was returned, the
\* entry's data, and the cache as the call leaves it.
_cache_get(u) ==
    LET key == _normalize_url(u) IN
    IF key \notin DOMAIN cache
        THEN [hit |-> FALSE, data |-> NoResult, cache |-> cache]
    ELSE IF now - cache[key].ts > CACHE_TTL
        THEN [hit |-> FALSE, data |-> NoResult,
              cache |-> [k \in DOMAIN cache \ {key} |-> cache[k]]]
    ELSE [hit |-> TRUE, data |-> cache[key].data, cache |-> cache]

\* server.py:94-97: the cache after the call.
_cache_put(u, data) ==
    LET key == _normalize_url(u) IN
    [k \in DOMAIN cache \cup {key} |->
        IF k = key THEN [ts |-> now, data |-> data] ELSE cache[k]]

(***************************************************************************)
(* The platform pipelines, by their outcomes.  A pipeline run by request r *)
(* hands back a result dict, or an exception leaves it.                    *)
(***************************************************************************)
Returned(d) == [tag |-> "return", value |-> d]
Raised == [tag |-> "raise", value |-> NoResult]

\* transcript_extractor.py:242-278: the whole body sits in try/except.
extract_youtube(r) ==
    { Returned([success |-> TRUE, title |-> "YouTube Video",
                transcript |-> <<"transcript of run", r>>,
                source |-> "yt-dlp_subs_en", language |-> "en"]),
      Returned([error |-> "Could not extract subtitles or transcribe audio"]) }

\* transcript_extractor.py:308-377: the whole body sits in try/except.
extract_tiktok(r) ==
    { Returned([success |-> TRUE, title |-> "TikTok Video",
                transcript |-> <<"transcript of run", r>>,
                source |-> "whisper_audio+metadata", language |-> "auto"]),
      Returned([error |-> "TikTok extraction failed"]) }

\* transcript_extractor.py:393-423: no try/except around the body
\* (os.remove at 413 and the calls at 395-412 may raise).
extract_facebook(r) ==
    { Returned([success |-> TRUE, title |-> "Facebook Video (Audio Transcript)",
                transcript |-> <<"transcript of run", r>>,
                source |-> "whisper_audio", language |-> "auto"]),
      Returned([error |-> "Could not extract subtitles or transcribe Facebook audio"]),
      Raised }

\* douyin_breakthrough.py:355-475: line 462 subscripts successful_video_url,
\* which is None when the last candidate's transcript is non-empty but not
\* longer than 20 characters: a TypeError leaves the pipeline.
extract_douyin_breakthrough(r) ==
    { Returned([success |-> TRUE, title |-> "Douyin Video",
                transcript |-> <<"transcript of run", r>>,
                source |-> "douyin_breakthrough_whisper", language |-> "zh"]),
      Returned([success |-> FALSE, error |-> "ALL DOUYIN ATTACKS FAILED"]),
      Raised }

\* The dispatch chain without its else branch.
Supported_any(platform) == TRUE

\* server.py:136-150: the pipeline a platform is dispatched to.
Supported(platform) == platform \in {"youtube", "tiktok", "facebook", "douyin"}

Dispatch(platform, r) ==
    IF platform = "youtube" THEN extract_youtube(r)
    ELSE IF platform = "tiktok" THEN extract_tiktok(r)
    ELSE IF platform = "facebook" THEN extract_facebook(r)
    ELSE extract_douyin_breakthrough(r)

\* server.py:145-150
UnsupportedResponse(platform) ==
    [success |-> FALSE, error |-> <<"Unsupported platform: ", platform>>,
     cached |-> FALSE]

\* The error test dropped: every result is treated as a success.
HasError_never(res) == FALSE

\* server.py:154
HasError(res) == "error" \in DOMAIN res

\* server.py:155-161
FailureResponse(res, platform) ==
    [success |-> FALSE, error |-> res.error, platform |-> platform,
     cached |-> FALSE]

\* server.py:163-172
SuccessResponse(res, language, platform) ==
    [success |-> TRUE,
     title |-> Get(res, "title", ""),
     transcript |-> Get(res, "transcript", ""),
     source |-> Get(res, "source", ""),
     language |-> IF language # NoLang THEN language
                  ELSE Get(res, "language", "auto"),
     platform |-> platform,
     cached |-> FALSE]

\* The answer of a hit rebuilt without the recorded language.
CachedResponse_default_language(data) ==
    [data EXCEPT !.cached = TRUE, !.language = "auto"]

\* server.py:124, 134: {**cached, "cached": True}
CachedResponse(data) == [data EXCEPT !.cached = TRUE]

(***************************************************************************)
(* How a request's thread leaves _do_transcribe.                           *)
(***************************************************************************)
\* server.py:206-208 (sync: answer 200 or 502) and 229-230 (async: the
\* worker goes on to write the job).
Return(r, response) ==
    /\ resp' = [resp EXCEPT ![r] = response]
    /\ IF kind[r] = "sync"
          THEN /\ pc' = [pc EXCEPT ![r] = "done"]
               /\ http' = [http EXCEPT ![r] =
                              IF Get(response, "success", FALSE) THEN 200 ELSE 502]
          ELSE /\ pc' = [pc EXCEPT ![r] = "write_status"]
               /\ http' = http

\* An exception leaves _do_transcribe: Flask answers a sync request 500;
\* an async worker's thread ends inside _run (server.py:229).
Raise(r) ==
    /\ resp' = resp
    /\ IF kind[r] = "sync"
          THEN /\ pc' = [pc EXCEPT ![r] = "done"]
               /\ http' = [http EXCEPT ![r] = 500]
          ELSE /\ pc' = [pc EXCEPT ![r] = "dead"]
               /\ http' = http

Finished(r) == pc[r] \in {"done", "dead"}

\* Request slots are taken in order.
NextSlot(r) == pc[r] = "idle" /\ \A q \in Reqs : q < r => pc[q] # "idle"

(***************************************************************************)
(* Handlers.                                                               *)
(***************************************************************************)
\* str.strip() on the tokens of a URL: the blanks at both ends go.
RECURSIVE lstrip(_)
lstrip(s) == IF s # <<>> /\ Head(s) = " " THEN lstrip(Tail(s)) ELSE s

RECURSIVE rstrip_blanks(_)
rstrip_blanks(s) ==
    IF s # <<>> /\ s[Len(s)] = " " THEN rstrip_blanks(SubSeq(s, 1, Len(s) - 1))
    ELSE s

\* The url taken as it came.
strip_nothing(u) == u

strip(u) ==
    LET h == lstrip(u.host)
        t == rstrip_blanks(u.rest)
    IN  IF t = <<>> THEN [host |-> rstrip_blanks(h), rest |-> <<>>]
        ELSE [host |-> h, rest |-> t]

\* server.py:199, 214: body.get("url", "").strip()
BodyUrl(in) == strip(Get(in, "url", Blank))

\* server.py:198-208, up to the call of _do_transcribe.
transcribe_sync(r, in) ==
    /\ NextSlot(r)
    /\ kind' = [kind EXCEPT ![r] = "sync"]
    /\ url' = [url EXCEPT ![r] = BodyUrl(in)]
    /\ lang' = [lang EXCEPT ![r] = in.language]
    /\ heldAtSubmit' = heldAtSubmit
    /\ IF BodyUrl(in) = Blank
          THEN /\ pc' = [pc EXCEPT ![r] = "done"]
               /\ http' = [http EXCEPT ![r] = 400]
          ELSE /\ pc' = [pc EXCEPT ![r] = "check1"]
               /\ http' = http
    /\ UNCHANGED <<now, cache, tlock, jobs, jlock, result, resp, job, gj>>

\* server.py:219: uuid4().hex[:12], an id no job has yet.
NewJobId == Cardinality(DOMAIN jobs) + 1

\* server.py:221-226: the job map after the job is registered.
RegisterJob(id) ==
    [j \in DOMAIN jobs \cup {id} |->
        IF j = id THEN [status |-> "processing", result |-> NoResult,
                        created_at |-> now]
        ELSE jobs[j]]

\* transcribe_async running behind the transcription lock: it registers the
\* job only once the lock is free.
transcribe_async_behind_lock(r, in) ==
    /\ NextSlot(r)
    /\ tlock = Free
    /\ kind' = [kind EXCEPT ![r] = "async"]
    /\ url' = [url EXCEPT ![r] = BodyUrl(in)]
    /\ lang' = [lang EXCEPT ![r] = in.language]
    /\ heldAtSubmit' = [heldAtSubmit EXCEPT ![r] =
                            IF BodyUrl(in) = Blank THEN Free ELSE tlock]
    /\ IF BodyUrl(in) = Blank
          THEN /\ pc' = [pc EXCEPT ![r] = "done"]
               /\ http' = [http EXCEPT ![r] = 400]
               /\ UNCHANGED <<jobs, job>>
          ELSE /\ jlock = Free
               /\ jobs' = RegisterJob(NewJobId)
               /\ job' = [job EXCEPT ![r] = NewJobId]
               /\ pc' = [pc EXCEPT ![r] = "check1"]
               /\ http' = [http EXCEPT ![r] = 202]
    /\ UNCHANGED <<now, cache, tlock, jlock, result, resp, gj>>

\* server.py:211-237: register the job, start the worker, answer 202.
transcribe_async(r, in) ==
    /\ NextSlot(r)
    /\ kind' = [kind EXCEPT ![r] = "async"]
    /\ url' = [url EXCEPT ![r] = BodyUrl(in)]
    /\ lang' = [lang EXCEPT ![r] = in.language]
    /\ heldAtSubmit' = [heldAtSubmit EXCEPT ![r] =
                            IF BodyUrl(in) = Blank THEN Free ELSE tlock]
    /\ IF BodyUrl(in) = Blank
          THEN /\ pc' = [pc EXCEPT ![r] = "done"]
               /\ http' = [http EXCEPT ![r] = 400]
               /\ UNCHANGED <<jobs, job>>
          ELSE /\ jlock = Free
               /\ jobs' = RegisterJob(NewJobId)
               /\ job' = [job EXCEPT ![r] = NewJobId]
               /\ pc' = [pc EXCEPT ![r] = "check1"]
               /\ http' = [http EXCEPT ![r] = 202]
    /\ UNCHANGED <<now, cache, tlock, jlock, result, resp, gj>>

(***************************************************************************)
(* _do_transcribe (server.py:116-175), one action per step on shared       *)
(* state.                                                                  *)
(***************************************************************************)
\* server.py:119-126: expand the url, first cache check.
CacheCheck1(r) ==
    /\ pc[r] = "check1"
    /\ \E u \in expand_shortened_url(url[r]) :
        LET got == _cache_get(u) IN
        /\ url' = [url EXCEPT ![r] = u]
        /\ cache' = got.cache
        /\ IF got.hit
              THEN Return(r, CachedResponse(got.data))
              ELSE /\ pc' = [pc EXCEPT ![r] = "lock"]
                   /\ UNCHANGED <<resp, http>>
    /\ UNCHANGED <<now, tlock, jobs, jlock, kind, lang, result, job, heldAtSubmit, gj>>

\* A lock that never blocks.
LockIsFree_always == TRUE

\* server.py:129: with _transcription_lock
LockIsFree == tlock = Free

AcquireLock(r) ==
    /\ pc[r] = "lock"
    /\ LockIsFree
    /\ tlock' = r
    /\ pc' = [pc EXCEPT ![r] = "check2"]
    /\ UNCHANGED <<now, cache, jobs, jlock, kind, url, lang, result, resp, http,
                   job, heldAtSubmit, gj>>

\* server.py:132-150: second cache check under the lock; a hit and an
\* unsupported platform return (releasing the lock), otherwise the
\* platform's pipeline is entered.
CacheCheck2(r) ==
    /\ pc[r] = "check2"
    /\ LET got == _cache_get(url[r])
           platform == identify_platform(url[r]) IN
        /\ cache' = got.cache
        /\ IF got.hit
              THEN /\ Return(r, CachedResponse(got.data))
                   /\ tlock' = Free
           ELSE IF Supported(platform)
              THEN /\ pc' = [pc EXCEPT ![r] = "pipeline"]
                   /\ UNCHANGED <<resp, http, tlock>>
           ELSE /\ Return(r, UnsupportedResponse(platform))
                /\ tlock' = Free
    /\ UNCHANGED <<now, jobs, jlock, kind, url, lang, result, job, heldAtSubmit, gj>>

\* The lock released by hand after the dispatch instead of by the with
\* block: an exception of the pipeline leaves it held.
PipelineReturn_release_by_hand(r) ==
    /\ pc[r] = "pipeline"
    /\ \E o \in Dispatch(identify_platform(url[r]), r) :
        IF o.tag = "return"
            THEN /\ result' = [result EXCEPT ![r] = o.value]
                 /\ pc' = [pc EXCEPT ![r] = "post"]
                 /\ tlock' = Free
                 /\ UNCHANGED <<resp, http>>
            ELSE /\ Raise(r)
                 /\ tlock' = tlock
                 /\ result' = result
    /\ UNCHANGED <<now, cache, jobs, jlock, kind, url, lang, job, heldAtSubmit, gj>>

\* server.py:136-143 and the end of the with block: the pipeline hands back
\* its result, or raises; either way the lock is released.
PipelineReturn(r) ==
    /\ pc[r] = "pipeline"
    /\ \E o \in Dispatch(identify_platform(url[r]), r) :
        IF o.tag = "return"
            THEN /\ result' = [result EXCEPT ![r] = o.value]
                 /\ pc' = [pc EXCEPT ![r] = "post"]
                 /\ UNCHANGED <<resp, http>>
            ELSE /\ Raise(r)
                 /\ result' = result
    /\ tlock' = Free
    /\ UNCHANGED <<now, cache, jobs, jlock, kind, url, lang, job, heldAtSubmit, gj>>

\* server.py:152-175: a result carrying "error" is returned as a failure;
\* any other is stored in the cache and returned.
Post(r) ==
    /\ pc[r] = "post"
    /\ LET platform == identify_platform(url[r]) IN
        IF HasError(result[r])
            THEN /\ Return(r, FailureResponse(result[r], platform))
                 /\ cache' = cache
            ELSE LET response == SuccessResponse(result[r], lang[r], platform) IN
                 /\ cache' = _cache_put(url[r], response)
                 /\ Return(r, response)
    /\ UNCHANGED <<now, tlock, jobs, jlock, kind, url, lang, result, job, heldAtSubmit, gj>>

(***************************************************************************)
(* The async worker's write of its job (server.py:230-232): two            *)
(* assignments inside one critical section of _jobs_lock.                  *)
(***************************************************************************)
SetJob(id, field, value) == [jobs EXCEPT ![id] = [@ EXCEPT ![field] = value]]

\* server.py:230-231
JobWriteStatus(r) ==
    /\ pc[r] = "write_status"
    /\ jlock = Free
    /\ jlock' = r
    /\ jobs' = SetJob(job[r], "status", "completed")
    /\ pc' = [pc EXCEPT ![r] = "write_result"]
    /\ UNCHANGED <<now, cache, tlock, kind, url, lang, result, resp, http, job,
                   heldAtSubmit, gj>>

\* The critical section left without the result written.
JobWriteResult_forgotten(r) ==
    /\ pc[r] = "write_result"
    /\ jlock = r
    /\ jobs' = jobs
    /\ jlock' = Free
    /\ pc' = [pc EXCEPT ![r] = "done"]
    /\ UNCHANGED <<now, cache, tlock, kind, url, lang, result, resp, http, job,
                   heldAtSubmit, gj>>

\* server.py:232 and the end of the with block
JobWriteResult(r) ==
    /\ pc[r] = "write_result"
    /\ jlock = r
    /\ jobs' = SetJob(job[r], "result", resp[r])
    /\ jlock' = Free
    /\ pc' = [pc EXCEPT ![r] = "done"]
    /\ UNCHANGED <<now, cache, tlock, kind, url, lang, result, resp, http, job,
                   heldAtSubmit, gj>>

(***************************************************************************)
(* get_job (server.py:240-248).  The lookup runs under _jobs_lock and      *)
(* yields a reference to the job's dict; status and result are read from   *)
(* it after the lock is released.                                          *)
(***************************************************************************)
JobIds == 1..NumReq

\* The lookup as _jobs[job_id]: an unknown id raises KeyError.
GetJobLookup_subscript(id) ==
    /\ gj.pc = "idle"
    /\ jlock = Free
    /\ gj' = IF id \in DOMAIN jobs
                THEN [pc |-> "status", id |-> id, out |-> "none", body |-> NoResult]
                ELSE [pc |-> "idle", id |-> id, out |-> "error", body |-> NoResult]
    /\ UNCHANGED <<now, cache, tlock, jobs, jlock, reqVars>>

\* server.py:242-245
GetJobLookup(id) ==
    /\ gj.pc = "idle"
    /\ jlock = Free
    /\ gj' = IF id \in DOMAIN jobs
                THEN [pc |-> "status", id |-> id, out |-> "none", body |-> NoResult]
                ELSE [pc |-> "idle", id |-> id, out |-> "404", body |-> NoResult]
    /\ UNCHANGED <<now, cache, tlock, jobs, jlock, reqVars>>

\* server.py:246-247
GetJobStatus ==
    /\ gj.pc = "status"
    /\ gj' = IF jobs[gj.id].status = "processing"
                THEN [gj EXCEPT !.pc = "idle", !.out = "processing"]
                ELSE [gj EXCEPT !.pc = "result"]
    /\ UNCHANGED <<now, cache, tlock, jobs, jlock, reqVars>>

\* server.py:248: **job["result"] raises TypeError when the result is None.
GetJobResult ==
    /\ gj.pc = "result"
    /\ gj' = IF jobs[gj.id].result = NoResult
                THEN [gj EXCEPT !.pc = "idle", !.out = "error"]
                ELSE [gj EXCEPT !.pc = "idle", !.out = "completed",
                                !.body = jobs[gj.id].result]
    /\ UNCHANGED <<now, cache, tlock, jobs, jlock, reqVars>>

\* time.time() moves on.
Tick ==
    /\ now < MaxTicks * TickStep
    /\ now' = now + TickStep
    /\ UNCHANGED <<cache, tlock, jobs, jlock, reqVars, gj>>

\* The steps of the request threads, driven with the requests ins.
Serve(ins) ==
    \/ \E r \in Reqs, in \in ins :
            in.kind = "sync" /\ transcribe_sync(r, in) /\ UNCHANGED <<mgrVars, probe, hl, pipeVars, lockVars, rateVars>>
    \/ \E r \in Reqs, in \in ins :
            in.kind = "async" /\ transcribe_async(r, in) /\ UNCHANGED <<mgrVars, probe, hl, pipeVars, lockVars, rateVars>>
    \/ \E r \in Reqs : CacheCheck1(r) /\ UNCHANGED <<mgrVars, probe, hl, pipeVars, lockVars, rateVars>>
    \/ \E r \in Reqs : AcquireLock(r) /\ UNCHANGED <<mgrVars, probe, hl, pipeVars, lockVars, rateVars>>
    \/ \E r \in Reqs : CacheCheck2(r) /\ UNCHANGED <<mgrVars, probe, hl, pipeVars, lockVars, rateVars>>
    \/ \E r \in Reqs : PipelineReturn(r) /\ UNCHANGED <<mgrVars, probe, hl, pipeVars, lockVars, rateVars>>
    \/ \E r \in Reqs : Post(r) /\ UNCHANGED <<mgrVars, probe, hl, pipeVars, lockVars, rateVars>>
    \/ \E r \in Reqs : JobWriteStatus(r) /\ UNCHANGED <<mgrVars, probe, hl, pipeVars, lockVars, rateVars>>
    \/ \E r \in Reqs : JobWriteResult(r) /\ UNCHANGED <<mgrVars, probe, hl, pipeVars, lockVars, rateVars>>

\* The steps of the threads serving POST /api/transcribe.
NextSync ==
    \/ \E r \in Reqs, in \in SyncRequests :
            transcribe_sync(r, in) /\ UNCHANGED <<mgrVars, probe, hl, pipeVars, lockVars, rateVars>>
    \/ \E r \in Reqs : CacheCheck1(r) /\ UNCHANGED <<mgrVars, probe, hl, pipeVars, lockVars, rateVars>>
    \/ \E r \in Reqs : AcquireLock(r) /\ UNCHANGED <<mgrVars, probe, hl, pipeVars, lockVars, rateVars>>
    \/ \E r \in Reqs : CacheCheck2(r) /\ UNCHANGED <<mgrVars, probe, hl, pipeVars, lockVars, rateVars>>
    \/ \E r \in Reqs : PipelineReturn(r) /\ UNCHANGED <<mgrVars, probe, hl, pipeVars, lockVars, rateVars>>
    \/ \E r \in Reqs : Post(r) /\ UNCHANGED <<mgrVars, probe, hl, pipeVars, lockVars, rateVars>>

\* The steps of the get_job poller.
Poll ==
    \/ \E id \in JobIds : GetJobLookup(id) /\ UNCHANGED <<mgrVars, probe, hl, pipeVars, lockVars, rateVars>>
    \/ GetJobStatus /\ UNCHANGED <<mgrVars, probe, hl, pipeVars, lockVars, rateVars>>
    \/ GetJobResult /\ UNCHANGED <<mgrVars, probe, hl, pipeVars, lockVars, rateVars>>

\* Every job counted, whatever its status.
ActiveJobs_all(js) == Cardinality(DOMAIN js)

\* server.py:188: sum(1 for j in _jobs.values() if j["status"] == "processing")
ActiveJobs(js) ==
    Cardinality({ id \in DOMAIN js : js[id].status = "processing" })

\* server.py:185-186: with _cache_lock: cache_size = len(_cache)
health_cache_size ==
    /\ hl.pc = "idle"
    /\ hl' = [pc |-> "jobs", cache_size |-> Cardinality(DOMAIN cache),
              active_jobs |-> 0]
    /\ UNCHANGED srvVars

\* server.py:187-195: the jobs are counted under _jobs_lock and the
\* answer is sent.
health_active_jobs ==
    /\ hl.pc = "jobs"
    /\ jlock = Free
    /\ hl' = [hl EXCEPT !.pc = "idle", !.active_jobs = ActiveJobs(jobs)]
    /\ UNCHANGED srvVars

\* The steps of a client calling GET /api/health.
Health ==
    \/ health_cache_size /\ UNCHANGED <<mgrVars, probe, pipeVars, lockVars, rateVars>>
    \/ health_active_jobs /\ UNCHANGED <<mgrVars, probe, pipeVars, lockVars, rateVars>>

\* Requests against the clock: the cache and the transcription lock.
Next == Serve(Requests) \/ (Tick /\ UNCHANGED <<mgrVars, probe, hl, pipeVars, lockVars, rateVars>>)

Spec == Init /\ [][Next]_vars

\* Requests against a status poller, within one second of the clock.
NextJobs == Serve(JobRequests) \/ Poll

SpecJobs == Init /\ [][NextJobs]_vars

SpecSync == Init /\ [][NextSync]_vars

\* The steps a request's thread takes on the transcription lock: it
\* acquires the lock (server.py:129) and, holding it, runs the second cache
\* check and the pipeline (130-150).
UnderLock(r) ==
    \/ AcquireLock(r) /\ UNCHANGED <<mgrVars, probe, hl, pipeVars, lockVars, rateVars>>
    \/ CacheCheck2(r) /\ UNCHANGED <<mgrVars, probe, hl, pipeVars, lockVars, rateVars>>
    \/ PipelineReturn(r) /\ UNCHANGED <<mgrVars, probe, hl, pipeVars, lockVars, rateVars>>

\* Requests whose threads keep running: a thread that can take its next
\* step on the lock takes it, and a pipeline that was entered comes back
\* (by return or by exception).  The clock stands still.
NextLock == Serve(LockRequests)

SpecLock == Init /\ [][NextLock]_vars /\ \A r \in Reqs : WF_vars(UnderLock(r))

\* Requests carrying language hints.
NextLang == Serve(LangRequests)

SpecLang == Init /\ [][NextLang]_vars

\* Requests while GET /api/health is called.
NextHealth == Serve(JobRequests) \/ Health

SpecHealth == Init /\ [][NextHealth]_vars

(***************************************************************************)
(* The model manager (src/whisper_manager.py).  Every critical section     *)
(* under _lock is one action.  _executor is the sequence of the loads      *)
(* submitted so far, each [name, state] with state pending, running, done  *)
(* or failed; a Future is the index of its load.                           *)
(***************************************************************************)
\* _executor.submit(_load_model, name): the executor with the load queued.
submit(name) == Append(_executor, [name |-> name, state |-> "pending"])

\* whisper_manager.py:26-32: whisper.load_model(name) hands back a model
\* object or raises.
_load_model(name, load) == {Returned(Instance(name, load)), Raised}

\* preload_model without the check of line 41: it always submits a load.
preload_model_always_loads(c, name) ==
    /\ call[c].pc = "idle"
    /\ Len(_executor) < MaxLoads
    /\ _model_name' = name
    /\ _model' = NoModel
    /\ _executor' = submit(name)
    /\ _model_future' = Len(_executor')
    /\ call' = [call EXCEPT ![c] = [pc |-> "idle", op |-> "preload",
                    name |-> name, future |-> _model_future', ret |-> NoModel]]

\* whisper_manager.py:35-46, called by thread c.  call[c].future records
\* the load the call submitted, if any.
preload_model(c, name) ==
    /\ call[c].pc = "idle"
    /\ IF _model_name = name /\ (_model # NoModel \/ _model_future # NoFuture)
          THEN /\ call' = [call EXCEPT ![c] = [pc |-> "idle", op |-> "preload",
                        name |-> name, future |-> NoFuture, ret |-> NoModel]]
               /\ UNCHANGED <<_model_name, _model_future, _model, _executor>>
          ELSE /\ Len(_executor) < MaxLoads
               /\ _model_name' = name
               /\ _model' = NoModel
               /\ _executor' = submit(name)
               /\ _model_future' = Len(_executor')
               /\ call' = [call EXCEPT ![c] = [pc |-> "idle", op |-> "preload",
                        name |-> name, future |-> _model_future', ret |-> NoModel]]

\* require_model that never joins the tracked load: without lines 63-64.
require_model_never_joins(c, name) ==
    /\ call[c].pc = "idle"
    /\ IF _model # NoModel /\ _model_name = name
          THEN /\ call' = [call EXCEPT ![c] = [pc |-> "idle", op |-> "require",
                        name |-> name, future |-> NoFuture, ret |-> _model]]
               /\ UNCHANGED <<_model_name, _model_future, _model, _executor>>
          ELSE /\ Len(_executor) < MaxLoads
               /\ _model_name' = name
               /\ _executor' = submit(name)
               /\ _model_future' = Len(_executor')
               /\ call' = [call EXCEPT ![c] = [pc |-> "wait", op |-> "require",
                        name |-> name, future |-> _model_future', ret |-> NoModel]]
               /\ UNCHANGED _model

\* whisper_manager.py:57-69, the first critical section of require_model:
\* return the resident model, or join the tracked load, or submit one.
require_model(c, name) ==
    /\ call[c].pc = "idle"
    /\ IF _model # NoModel /\ _model_name = name
          THEN /\ call' = [call EXCEPT ![c] = [pc |-> "idle", op |-> "require",
                        name |-> name, future |-> NoFuture, ret |-> _model]]
               /\ UNCHANGED <<_model_name, _model_future, _model, _executor>>
       ELSE IF _model_future # NoFuture /\ _model_name = name
          THEN /\ call' = [call EXCEPT ![c] = [pc |-> "wait", op |-> "require",
                        name |-> name, future |-> _model_future, ret |-> NoModel]]
               /\ UNCHANGED <<_model_name, _model_future, _model, _executor>>
       ELSE /\ Len(_executor) < MaxLoads
            /\ _model_name' = name
            /\ _executor' = submit(name)
            /\ _model_future' = Len(_executor')
            /\ call' = [call EXCEPT ![c] = [pc |-> "wait", op |-> "require",
                        name |-> name, future |-> _model_future', ret |-> NoModel]]
            /\ UNCHANGED _model

\* whisper_manager.py:72-78: future.result() raises the load's exception;
\* under _lock the tracked load is forgotten, and None is returned.  (A
\* load that has ended stays ended, so the step reads the Future and runs
\* the critical section at once.)
RequireExcept(c) ==
    /\ call[c].pc = "wait"
    /\ _executor[call[c].future].state = "failed"
    /\ _model_future' = NoFuture
    /\ call' = [call EXCEPT ![c].pc = "idle", ![c].ret = NoModel]
    /\ UNCHANGED <<_model_name, _model, _executor>>

\* whisper_manager.py:72-73, 80-83: future.result() returns the model;
\* under _lock it becomes the resident model, the tracked load is
\* forgotten, and the model is returned.
RequireStore(c) ==
    /\ call[c].pc = "wait"
    /\ _executor[call[c].future].state = "done"
    /\ LET res == Instance(_executor[call[c].future].name, call[c].future) IN
        /\ _model' = res
        /\ call' = [call EXCEPT ![c].pc = "idle", ![c].ret = res]
    /\ _model_future' = NoFuture
    /\ UNCHANGED <<_model_name, _executor>>

\* An executor with a worker for every load.
WorkerIdle_pool(i) == TRUE

\* whisper_manager.py:20: ThreadPoolExecutor(max_workers=1).  The one
\* worker can take load i when it runs no load and i is the oldest queued.
WorkerIdle(i) ==
    \A j \in 1..Len(_executor) :
        /\ _executor[j].state # "running"
        /\ j < i => _executor[j].state # "pending"

\* The worker takes the next load off the queue.
LoadStart(i) ==
    /\ _executor[i].state = "pending"
    /\ WorkerIdle(i)
    /\ _executor' = [_executor EXCEPT ![i].state = "running"]
    /\ UNCHANGED <<_model_name, _model_future, _model, call>>

\* _load_model returns or raises; the load's Future is resolved.
LoadFinish(i) ==
    /\ _executor[i].state = "running"
    /\ \E o \in _load_model(_executor[i].name, i) :
        _executor' = [_executor EXCEPT ![i].state =
                        IF o.tag = "return" THEN "done" ELSE "failed"]
    /\ UNCHANGED <<_model_name, _model_future, _model, call>>

\* Threads make their first call in the order of their numbers.
InTurn(c) == \A q \in Callers : q < c => call[q].op # "none"

\* Threads calling the manager with any names, and the executor's worker.
NextManager ==
    \/ \E c \in Callers, n \in Names :
            InTurn(c) /\ preload_model(c, n) /\ UNCHANGED <<srvVars, probe, hl, pipeVars, lockVars, rateVars>>
    \/ \E c \in Callers, n \in Names :
            InTurn(c) /\ require_model(c, n) /\ UNCHANGED <<srvVars, probe, hl, pipeVars, lockVars, rateVars>>
    \/ \E c \in Callers : RequireExcept(c) /\ UNCHANGED <<srvVars, probe, hl, pipeVars, lockVars, rateVars>>
    \/ \E c \in Callers : RequireStore(c) /\ UNCHANGED <<srvVars, probe, hl, pipeVars, lockVars, rateVars>>
    \/ \E i \in 1..Len(_executor) : LoadStart(i) /\ UNCHANGED <<srvVars, probe, hl, pipeVars, lockVars, rateVars>>
    \/ \E i \in 1..Len(_executor) : LoadFinish(i) /\ UNCHANGED <<srvVars, probe, hl, pipeVars, lockVars, rateVars>>

SpecManager == Init /\ [][NextManager]_vars

(***************************************************************************)
(* _normalize_url (server.py:75-78) applied to URLs https://x.com<rest>,   *)
(* rest drawn from every string of up to MaxLen characters.                *)
(***************************************************************************)
NormTokens == {"v", "/", "?", "#", ";"}
XHost == <<"x", "com">>
\* https://x.com/v/1?a=1#frag, https://x.com/v/1#frag, https://x.com/v/1/
X1query == [host |-> XHost,
            rest |-> <<"/", "v", "/", "1", "?", "a=1", "#", "frag">>]
X1frag == [host |-> XHost, rest |-> <<"/", "v", "/", "1", "#", "frag">>]
X1slash == [host |-> XHost, rest |-> <<"/", "v", "/", "1", "/">>]

\* What follows a netloc starts with "/", "?" or "#".
NormInputs ==
    {[host |-> XHost, rest |-> t] :
        t \in {s \in UNION {[1..n -> NormTokens] : n \in 0..MaxLen} :
                    s = <<>> \/ s[1] \in {"/", "?", "#"}}}
    \cup {X1query, X1frag}

\* The text before the fragment, without its trailing slashes.
Bare(rest) ==
    LET h == Find(rest, "#", 1)
        nofrag == IF h = 0 THEN rest ELSE Before(rest, h)
        ends == {i \in 0..Len(nofrag) :
                    \A j \in (i + 1)..Len(nofrag) : nofrag[j] = "/"} IN
    SubSeq(nofrag, 1, CHOOSE i \in ends : \A j \in ends : i <= j)

\* The URLs that differ from u only in fragment or trailing slashes.
Variants(u) ==
    {[u EXCEPT !.rest = Bare(u.rest) \o [i \in 1..k |-> "/"] \o f] :
        k \in 0..2, f \in {<<>>, <<"#">>, <<"#", "frag", "/">>}}

\* The URLs held to name the same video as u: its variants and, for
\* https://x.com/v/1?a=1#frag, https://x.com/v/1/.
SameVideo(u) == Variants(u) \cup (IF u = X1query THEN {X1slash} ELSE {})

InitNormalize ==
    /\ InitServer /\ InitManager
    /\ hl = NoHealth /\ InitExtractors /\ InitLocks /\ InitRate
    /\ \E u \in NormInputs : probe = [NoProbe EXCEPT !.url = u]

\* key = _normalize_url(url)
Normalize ==
    /\ probe.key = NoResult
    /\ probe' = [probe EXCEPT !.key = _normalize_url(probe.url)]

\* The key is normalized again.
Renormalize ==
    /\ probe.key # NoResult /\ probe.rekey = NoResult
    /\ probe' = [probe EXCEPT !.rekey = _normalize_url(probe.key)]

\* Another URL of the same video is normalized.
NormalizeOther ==
    /\ probe.other = NoResult
    /\ \E v \in SameVideo(probe.url) :
        probe' = [probe EXCEPT !.other = v, !.otherKey = _normalize_url(v)]

NextNormalize ==
    \/ Normalize /\ UNCHANGED <<srvVars, mgrVars, hl, pipeVars, lockVars, rateVars>>
    \/ Renormalize /\ UNCHANGED <<srvVars, mgrVars, hl, pipeVars, lockVars, rateVars>>
    \/ NormalizeOther /\ UNCHANGED <<srvVars, mgrVars, hl, pipeVars, lockVars, rateVars>>

SpecNormalize == InitNormalize /\ [][NextNormalize]_vars

(***************************************************************************)
(* The platform pipelines, collaborator by collaborator.  One invocation   *)
(* runs at a time (the callers hold _transcription_lock); px holds its     *)
(* local variables, temp_dir the files of the extractor it belongs to.     *)
(* A text is [of, len, inv, cand]: captions or speech, its stripped        *)
(* length, the invocation whose fetched file it was read or transcribed    *)
(* from, and the candidate the audio came from (0: none).  A transcript    *)
(* handed back is the sequence of the texts it is composed of.  px.tried   *)
(* is history: the candidates tried so far, each with the transcript it    *)
(* gave (None if it gave no audio or no transcript).                       *)
(***************************************************************************)
MaxRuns == 2
MaxCands == 2

Pipelines == {"youtube", "tiktok", "facebook", "douyin", "facebook_direct"}

\* server.py:58-60, 136-143: the extractor object a pipeline is a method of.
ExtractorOf(p) ==
    IF p \in {"youtube", "tiktok", "facebook"} THEN "extractor_yt"
    ELSE IF p = "douyin" THEN "extractor_dy"
    ELSE "extractor_fb"

\* Lengths around the thresholds of the code (20 and 10).
CaptionLens == {20, 21, 25}
TranscriptLens == {0, 10, 11, 20, 21}
Langs == {"en", "vi"}

Text(o, n, k, c) == [of |-> o, len |-> n, inv |-> k, cand |-> c]
\* A text the pipeline composes from the metadata of invocation k.
MetadataText(k) == [of |-> "metadata", inv |-> k]
SubsFile(n, k, l) == [kind |-> "subs", len |-> n, inv |-> k, cand |-> 0, lang |-> l]
AudioFile(k, c) == [kind |-> "audio", len |-> 0, inv |-> k, cand |-> c, lang |-> "none"]

\* The subtitle files one yt-dlp --write-subs call writes for the video of
\* invocation k (named <id>.<lang>.vtt): at most one per language.
SubsWritten(k) ==
    { W \in SUBSET { SubsFile(n, k, l) : n \in CaptionLens, l \in Langs } :
        \A f, g \in W : f.lang = g.lang => f = g }

Dir == temp_dir[ExtractorOf(px.pipeline)]
SubsIn(d) == { f \in d : f.kind = "subs" }

\* The run after it invoked collaborator c.
Invoke(run, c) ==
    [run EXCEPT !.first = IF @ = "none" THEN c ELSE @, !.called = @ \cup {c}]

\* The run after the pipeline handed d to its caller (or raised).
Give(run, d) == [run EXCEPT !.pc = "done", !.out = d]

CanStart == px.pc \in {"idle", "done"} /\ px.inv < MaxRuns
StartRun(p) == [NoRun EXCEPT !.pipeline = p, !.inv = px.inv + 1]

\* transcript_extractor.py:242-250: no 11-character id, no captions check.
youtube_enter ==
    /\ CanStart
    /\ \E idOk \in BOOLEAN :
        px' = IF idOk THEN [StartRun("youtube") EXCEPT !.pc = "subs"]
              ELSE Give(StartRun("youtube"),
                        Returned([error |-> "Invalid YouTube URL"]))
    /\ UNCHANGED temp_dir

\* transcript_extractor.py:308-317
tiktok_enter ==
    /\ CanStart
    /\ \E idOk \in BOOLEAN :
        px' = IF idOk THEN [StartRun("tiktok") EXCEPT !.pc = "metadata"]
              ELSE Give(StartRun("tiktok"),
                        Returned([error |-> "Could not extract TikTok video ID"]))
    /\ UNCHANGED temp_dir

\* transcript_extractor.py:319-329, 374-377: yt-dlp --print runs before the
\* captions check; the pipeline goes on only when it exits with 0.
tiktok_metadata ==
    /\ px.pipeline = "tiktok" /\ px.pc = "metadata"
    /\ \E rc \in {"zero", "nonzero", "timeout"} :
        px' = IF rc = "zero"
              THEN [Invoke(px, "metadata") EXCEPT !.pc = "subs", !.metadata = TRUE]
              ELSE IF rc = "nonzero"
              THEN Give(Invoke(px, "metadata"),
                        Returned([error |-> "TikTok extraction failed"]))
              ELSE Give(Invoke(px, "metadata"),
                        Returned([error |-> "TimeoutExpired"]))
    /\ UNCHANGED temp_dir

\* transcript_extractor.py:379-397: a /share/v/ link is resolved by an HTTP
\* GET before anything else.
facebook_enter ==
    /\ CanStart
    /\ \E share \in BOOLEAN :
        px' = IF share
              THEN [Invoke(StartRun("facebook"), "resolve") EXCEPT !.pc = "subs"]
              ELSE [StartRun("facebook") EXCEPT !.pc = "subs"]
    /\ UNCHANGED temp_dir

\* douyin_breakthrough.py:355-360
douyin_enter ==
    /\ CanStart
    /\ px' = [StartRun("douyin") EXCEPT !.pc = "subs"]
    /\ UNCHANGED temp_dir

\* facebook_direct_fixed.py:264-283
facebook_direct_enter ==
    /\ CanStart
    /\ \E share \in BOOLEAN :
        px' = IF share
              THEN [Invoke(StartRun("facebook_direct"), "resolve") EXCEPT !.pc = "subs"]
              ELSE [StartRun("facebook_direct") EXCEPT !.pc = "subs"]
    /\ UNCHANGED temp_dir

\* transcript_extractor.py:190-205 (douyin_breakthrough.py:323-335,
\* facebook_direct_fixed.py:232-244): yt-dlp writes the subtitle files of
\* this video into temp_dir, next to whatever is there; its exit code is
\* not looked at.
_check_subtitles ==
    /\ px.pipeline \in Pipelines \ {"tiktok"} /\ px.pc = "subs"
    /\ \E W \in SubsWritten(px.inv) :
        temp_dir' = [temp_dir EXCEPT ![ExtractorOf(px.pipeline)] = @ \cup W]
    /\ px' = [Invoke(px, "captions") EXCEPT !.pc = "scan"]

\* transcript_extractor.py:280-293, 304-306: the directory is scanned only
\* when yt-dlp exits with 0.
_check_tiktok_subtitles ==
    /\ px.pipeline = "tiktok" /\ px.pc = "subs"
    /\ \E rc0 \in BOOLEAN :
        IF rc0
        THEN /\ \E W \in SubsWritten(px.inv) :
                  temp_dir' = [temp_dir EXCEPT !["extractor_yt"] = @ \cup W]
             /\ px' = [Invoke(px, "captions") EXCEPT !.pc = "scan"]
        ELSE /\ temp_dir' = temp_dir
             /\ px' = [Invoke(px, "captions") EXCEPT !.pc = "audio"]

\* Python's truth test of an Optional[str]: neither None nor "".
Truthy(t) == t # NoText /\ t.len > 0

\* The length test dropped from the subtitle scan.
LongEnough_any(f) == TRUE

\* transcript_extractor.py:229, 300; douyin_breakthrough.py:343;
\* facebook_direct_fixed.py:252: len(content.strip()) > 20
LongEnough(f) ==
    f.len > 20

\* What a pipeline hands back for the subtitle file f it accepted:
\* transcript_extractor.py:230-236 (youtube, facebook), 334-342 (tiktok, the
\* captions followed by the metadata block), douyin_breakthrough.py:344-350,
\* facebook_direct_fixed.py:253-259.
SubsResult(p, f) ==
    LET content == Text("captions", f.len, f.inv, 0) IN
    IF p \in {"youtube", "facebook"}
    THEN Returned([success |-> TRUE, transcript |-> <<content>>,
                   source |-> IF f.lang = "vi" THEN "yt-dlp_subs_vi"
                              ELSE "yt-dlp_subs_en",
                   language |-> f.lang])
    ELSE IF p = "tiktok"
    THEN Returned([success |-> TRUE,
                   transcript |-> <<content, MetadataText(px.inv)>>,
                   source |-> "yt-dlp_auto_subs+metadata", language |-> "auto"])
    ELSE IF p = "douyin"
    THEN Returned([success |-> TRUE, transcript |-> <<content>>,
                   source |-> "douyin_yt-dlp_subs", language |-> "zh"])
    ELSE Returned([success |-> TRUE, transcript |-> <<content>>,
                   source |-> "facebook_yt-dlp_subs", language |-> "auto"])

\* The file the scan meets next: any subtitle file in temp_dir, whoever
\* wrote it.  transcript_extractor.py:217 sorts the listing, so <id>.en.vtt
\* comes before <id>.vi.vtt of the same video; the other scans take the
\* listing as the file system gives it.
NextInScan(f) ==
    /\ f \in SubsIn(Dir)
    /\ px.pipeline \in {"youtube", "facebook"} =>
         ~ \E g \in SubsIn(Dir) : g.inv = f.inv /\ g.lang = "en" /\ f.lang = "vi"

\* transcript_extractor.py:217-236, 294-303; douyin_breakthrough.py:336-350;
\* facebook_direct_fixed.py:245-259: the file is read and removed; the scan
\* returns at the first long enough one and leaves the rest where they are.
ScanFile ==
    /\ px.pc = "scan"
    /\ \E f \in Dir :
        /\ NextInScan(f)
        /\ temp_dir' = [temp_dir EXCEPT ![ExtractorOf(px.pipeline)] = @ \ {f}]
        /\ px' = IF LongEnough(f) THEN Give(px, SubsResult(px.pipeline, f))
                 ELSE px

\* The scan found nothing: transcript_extractor.py:254-259, 333, 344-346,
\* 402-407; douyin_breakthrough.py:361-365; facebook_direct_fixed.py:284-288.
ScanEnd ==
    /\ px.pc = "scan" /\ SubsIn(Dir) = {}
    /\ px' = [px EXCEPT !.pc = IF px.pipeline \in {"youtube", "tiktok", "facebook"}
                               THEN "audio"
                               ELSE IF px.pipeline = "douyin" THEN "locate"
                               ELSE "video_id"]
    /\ UNCHANGED temp_dir

\* The result of a pipeline of transcript_extractor.py that has no
\* transcript: 274 (youtube), 365-372 (tiktok: a success made of the
\* metadata), 423 (facebook).
NoTranscriptResult(p) ==
    IF p = "youtube"
    THEN Returned([error |-> "Could not extract subtitles or transcribe audio"])
    ELSE IF p = "tiktok"
    THEN Returned([success |-> TRUE, transcript |-> <<MetadataText(px.inv)>>,
                   source |-> "yt-dlp_metadata", language |-> "auto"])
    ELSE Returned([error |-> "Could not extract subtitles or transcribe Facebook audio"])

\* transcript_extractor.py:96-141, called at 260, 346, 410: None, or the
\* audio file yt-dlp wrote into temp_dir.
extract_audio ==
    /\ px.pipeline \in {"youtube", "tiktok", "facebook"} /\ px.pc = "audio"
    /\ \E got \in BOOLEAN :
        IF got
        THEN /\ px' = [Invoke(px, "audio") EXCEPT
                          !.pc = "transcribe", !.audio_file = AudioFile(px.inv, 0)]
             /\ temp_dir' = [temp_dir EXCEPT !["extractor_yt"] =
                                @ \cup {AudioFile(px.inv, 0)}]
        ELSE /\ px' = Give(Invoke(px, "audio"), NoTranscriptResult(px.pipeline))
             /\ temp_dir' = temp_dir

\* A transcript of any length passes.
TranscriptAccepted_any(p, t) == TRUE

\* The test a pipeline puts the Whisper transcript to:
\* transcript_extractor.py:266 and 414 (if transcript), 352 (> 10);
\* douyin_breakthrough.py:438 and facebook_direct_fixed.py:388, 350 (> 20).
TranscriptAccepted(p, t) ==
    IF p \in {"youtube", "facebook"} THEN Truthy(t)
    ELSE IF p = "tiktok" THEN Truthy(t) /\ t.len > 10
    ELSE Truthy(t) /\ t.len > 20

\* transcript_extractor.py:266-275, 352-369, 414-423
AudioResult(p, t) ==
    IF p = "tiktok"
    THEN Returned([success |-> TRUE, transcript |-> <<t, MetadataText(px.inv)>>,
                   source |-> "whisper_audio+metadata", language |-> "auto"])
    ELSE Returned([success |-> TRUE, transcript |-> <<t>>,
                   source |-> "whisper_audio", language |-> "auto"])

\* What Whisper may make of an audio file: None (no model, or an exception
\* inside transcribe) or the stripped text.
Transcripts(f) ==
    {NoText} \cup { Text("speech", n, f.inv, f.cand) : n \in TranscriptLens }

\* transcript_extractor.py:143-160, called at 263-264, 349-350, 412-413:
\* the audio is transcribed and removed, the transcript tested.
transcribe_audio ==
    /\ px.pipeline \in {"youtube", "tiktok", "facebook"} /\ px.pc = "transcribe"
    /\ \E t \in Transcripts(px.audio_file) :
        px' = Give([Invoke(px, "model") EXCEPT !.transcript = t],
                   IF TranscriptAccepted(px.pipeline, t)
                   THEN AudioResult(px.pipeline, t)
                   ELSE NoTranscriptResult(px.pipeline))
    /\ temp_dir' = [temp_dir EXCEPT !["extractor_yt"] = @ \ {px.audio_file}]

\* facebook_direct_fixed.py:289-291
facebook_direct_video_id ==
    /\ px.pipeline = "facebook_direct" /\ px.pc = "video_id"
    /\ \E idOk \in BOOLEAN :
        px' = IF idOk THEN [px EXCEPT !.pc = "locate"]
              ELSE Give(px, Returned([success |-> FALSE,
                                      error |-> "Could not extract video ID"]))
    /\ UNCHANGED temp_dir

\* The locate methods in the order of the methods list
\* (douyin_breakthrough.py:373-377; facebook_direct_fixed.py:296-300).
Methods == 1..3

\* What method k may hand back: -1 for {'success': False} or an exception,
\* otherwise the number of video URLs of its success.  Every Douyin method
\* and the mobile webapp method succeed only with URLs found
\* (douyin_breakthrough.py:133, 219, 269; facebook_direct_fixed.py:136);
\* the Graph API method succeeds on a 'title' without 'source'
\* (facebook_direct_fixed.py:169-174), the CDN method with its one URL (199).
Yields(p, k) ==
    IF p = "facebook_direct" /\ k = 2 THEN {-1, 0, 1}
    ELSE IF p = "facebook_direct" /\ k = 3 THEN {-1, 1}
    ELSE {-1} \cup 1..MaxCands

\* douyin_breakthrough.py:387-390; facebook_direct_fixed.py:309-312:
\* if result['success']: successful_method = result; break
Selects(y) ==
    y >= 0

\* douyin_breakthrough.py:379-395, 418-429; facebook_direct_fixed.py:302-317,
\* 363-379: the next locate method runs; the first success is taken, its
\* video_urls are the candidates, transcript and successful_video_url start
\* as None; after the last failure the pipeline falls back.
locate ==
    /\ px.pipeline \in {"douyin", "facebook_direct"} /\ px.pc = "locate"
    /\ LET k == px.method + 1 IN
       \E y \in Yields(px.pipeline, k) :
        px' = IF Selects(y)
              THEN [Invoke(px, "locate") EXCEPT
                       !.method = k, !.selected = k, !.metadata = TRUE,
                       !.cands = y, !.i = 1, !.transcript = NoText,
                       !.successful_video_url = NoCand,
                       !.pc = IF y >= 1 THEN "candidate" ELSE "result"]
              ELSE [Invoke(px, "locate") EXCEPT
                       !.method = k,
                       !.pc = IF k = 3 THEN "fallback" ELSE "locate"]
    /\ UNCHANGED temp_dir

\* douyin_breakthrough.py:397-416
douyin_fallback_title ==
    /\ px.pipeline = "douyin" /\ px.pc = "fallback"
    /\ \E ok \in BOOLEAN :
        px' = IF ok
              THEN Give(Invoke(px, "title"),
                        Returned([success |-> TRUE,
                                  transcript |-> <<MetadataText(px.inv)>>,
                                  source |-> "douyin_fallback_title"]))
              ELSE Give(Invoke(px, "title"),
                        Returned([success |-> FALSE,
                                  error |-> "ALL DOUYIN ATTACKS FAILED"]))
    /\ UNCHANGED temp_dir

\* facebook_direct_fixed.py:319-361: yt-dlp fetches the audio of the
\* original url; a file found is transcribed (348) and removed (349).
\* _transcribe_audio has removed it already unless no model is available
\* (492-493), so with a model os.remove raises FileNotFoundError, the
\* except at 359 takes over and 361 returns the failure; the success at
\* 350-358 needs a transcript and no exception.
facebook_direct_last_resort ==
    /\ px.pipeline = "facebook_direct" /\ px.pc = "fallback"
    /\ \E got \in BOOLEAN, whisper \in BOOLEAN,
          t \in Transcripts(AudioFile(px.inv, 0)) :
        /\ (~got \/ ~whisper) => t = NoText
        /\ LET removeRaises == got /\ whisper
               run == IF got
                      THEN [Invoke(Invoke(px, "audio"), "model") EXCEPT
                               !.audio_file = AudioFile(px.inv, 0),
                               !.transcript = t]
                      ELSE Invoke(px, "audio")
           IN  px' = Give(run,
                     IF got /\ ~removeRaises /\ TranscriptAccepted(px.pipeline, t)
                     THEN Returned([success |-> TRUE, transcript |-> <<t>>,
                                    source |-> "facebook_ytdlp_whisper",
                                    language |-> "auto"])
                     ELSE Returned([success |-> FALSE,
                                    error |-> "ALL ATTACKS BLOCKED BY FACEBOOK"]))
    /\ UNCHANGED temp_dir

\* The loop moves on to the next candidate, or ends after the last one.
NextCandidate(run) ==
    IF run.i >= run.cands THEN [run EXCEPT !.pc = "result"]
    ELSE [run EXCEPT !.i = @ + 1, !.pc = "candidate"]

\* The loop goes on after the candidate it accepted.
Accept_no_break(run) ==
    NextCandidate([run EXCEPT !.successful_video_url = run.i])

\* douyin_breakthrough.py:438-441; facebook_direct_fixed.py:388-391:
\* successful_video_url = video_url; break
Accept(run) ==
    [run EXCEPT !.successful_video_url = run.i, !.pc = "result"]

\* douyin_breakthrough.py:431-436, 444-448 (_download_and_extract_audio,
\* 477-538); facebook_direct_fixed.py:381-386, 394-399: candidate i is
\* tried; no audio, or an exception, and the loop moves on.
_download_and_extract_audio ==
    /\ px.pipeline \in {"douyin", "facebook_direct"} /\ px.pc = "candidate"
    /\ \E got \in BOOLEAN :
        LET run == [Invoke(px, "audio") EXCEPT
                       !.tried = Append(@, [cand |-> px.i, got |-> NoText])] IN
        IF got
        THEN /\ px' = [run EXCEPT !.pc = "candidate_transcribe",
                                  !.audio_file = AudioFile(px.inv, px.i)]
             /\ temp_dir' = [temp_dir EXCEPT ![ExtractorOf(px.pipeline)] =
                                @ \cup {AudioFile(px.inv, px.i)}]
        ELSE /\ px' = NextCandidate(run)
             /\ temp_dir' = temp_dir

\* douyin_breakthrough.py:436-438 (_transcribe_audio, 540-559);
\* facebook_direct_fixed.py:386-388 (489-509): the transcript of the
\* candidate's audio is assigned to transcript whatever it is; the audio
\* file is removed unless no model is available (542-544, 491-493).
_transcribe_audio ==
    /\ px.pipeline \in {"douyin", "facebook_direct"}
    /\ px.pc = "candidate_transcribe"
    /\ \E t \in Transcripts(px.audio_file), whisper \in BOOLEAN :
        /\ ~whisper => t = NoText
        /\ LET run == [Invoke(px, "model") EXCEPT
                          !.transcript = t, !.tried[Len(px.tried)].got = t] IN
           px' = IF TranscriptAccepted(px.pipeline, t) THEN Accept(run)
                 ELSE NextCandidate(run)
        /\ temp_dir' = IF whisper
                       THEN [temp_dir EXCEPT ![ExtractorOf(px.pipeline)] =
                                @ \ {px.audio_file}]
                       ELSE temp_dir

\* douyin_breakthrough.py:459-463; facebook_direct_fixed.py:410-414
WhisperResult(p, run) ==
    Returned([success |-> TRUE, transcript |-> <<run.transcript>>,
              source |-> IF p = "douyin" THEN "douyin_breakthrough_whisper"
                         ELSE "facebook_direct_whisper_SUCCESS",
              successful_video_url |-> run.successful_video_url])

\* douyin_breakthrough.py:465-472; facebook_direct_fixed.py:416-418
MetadataResult(p, run) ==
    Returned([success |-> TRUE, transcript |-> <<MetadataText(run.inv)>>,
              source |-> IF p = "douyin" THEN "douyin_breakthrough_metadata"
                         ELSE "facebook_direct_metadata"])

\* douyin_breakthrough.py:450-475; facebook_direct_fixed.py:401-421: the
\* test is "if transcript", and successful_video_url[:60] raises TypeError
\* when no candidate was accepted (successful_video_url is None).
candidates_result ==
    /\ px.pipeline \in {"douyin", "facebook_direct"} /\ px.pc = "result"
    /\ px' = Give(px, IF Truthy(px.transcript)
                      THEN IF px.successful_video_url = NoCand THEN Raised
                           ELSE WhisperResult(px.pipeline, px)
                      ELSE MetadataResult(px.pipeline, px))
    /\ UNCHANGED temp_dir

NextPipeline ==
    \/ youtube_enter /\ UNCHANGED <<srvVars, mgrVars, probe, hl, lockVars, rateVars>>
    \/ tiktok_enter /\ UNCHANGED <<srvVars, mgrVars, probe, hl, lockVars, rateVars>>
    \/ tiktok_metadata /\ UNCHANGED <<srvVars, mgrVars, probe, hl, lockVars, rateVars>>
    \/ facebook_enter /\ UNCHANGED <<srvVars, mgrVars, probe, hl, lockVars, rateVars>>
    \/ douyin_enter /\ UNCHANGED <<srvVars, mgrVars, probe, hl, lockVars, rateVars>>
    \/ facebook_direct_enter /\ UNCHANGED <<srvVars, mgrVars, probe, hl, lockVars, rateVars>>
    \/ _check_subtitles /\ UNCHANGED <<srvVars, mgrVars, probe, hl, lockVars, rateVars>>
    \/ _check_tiktok_subtitles /\ UNCHANGED <<srvVars, mgrVars, probe, hl, lockVars, rateVars>>
    \/ ScanFile /\ UNCHANGED <<srvVars, mgrVars, probe, hl, lockVars, rateVars>>
    \/ ScanEnd /\ UNCHANGED <<srvVars, mgrVars, probe, hl, lockVars, rateVars>>
    \/ extract_audio /\ UNCHANGED <<srvVars, mgrVars, probe, hl, lockVars, rateVars>>
    \/ transcribe_audio /\ UNCHANGED <<srvVars, mgrVars, probe, hl, lockVars, rateVars>>
    \/ facebook_direct_video_id /\ UNCHANGED <<srvVars, mgrVars, probe, hl, lockVars, rateVars>>
    \/ locate /\ UNCHANGED <<srvVars, mgrVars, probe, hl, lockVars, rateVars>>
    \/ douyin_fallback_title /\ UNCHANGED <<srvVars, mgrVars, probe, hl, lockVars, rateVars>>
    \/ facebook_direct_last_resort /\ UNCHANGED <<srvVars, mgrVars, probe, hl, lockVars, rateVars>>
    \/ _download_and_extract_audio /\ UNCHANGED <<srvVars, mgrVars, probe, hl, lockVars, rateVars>>
    \/ _transcribe_audio /\ UNCHANGED <<srvVars, mgrVars, probe, hl, lockVars, rateVars>>
    \/ candidates_result /\ UNCHANGED <<srvVars, mgrVars, probe, hl, lockVars, rateVars>>

SpecPipeline == Init /\ [][NextPipeline]_vars

(***************************************************************************)
(* The four locks.  A thread is the sequence of lock operations its code   *)
(* performs from here on; a branch of the code is a choice among           *)
(* sequences.                                                              *)
(***************************************************************************)
Acquire(l) == [op |-> "acquire", lock |-> l]
Release(l) == [op |-> "release", lock |-> l]
\* future.result() (whisper_manager.py:73): the thread waits for the
\* executor's worker, which runs _load_model (26-32) and takes no lock.
WaitFuture == [op |-> "wait", lock |-> "none"]

\* `with l:` around a body that takes no lock.
With(l) == <<Acquire(l), Release(l)>>

\* server.py:81-91 and 94-97
cache_get_ops == With("_cache_lock")
cache_put_ops == With("_cache_lock")

\* whisper_manager.py:39-46
preload_ops == With("_lock")

\* whisper_manager.py:57-83: the fast path returns inside the first with
\* block; otherwise the future is awaited outside the lock and the lock
\* taken again to record the outcome (76-77 or 80-82).
require_ops ==
    { With("_lock"),
      With("_lock") \o <<WaitFuture>> \o With("_lock") }

\* A pipeline under the transcription lock: it needs no model (captions,
\* failures before the audio) or calls require_model through _get_whisper
\* (transcript_extractor.py:51-53).
pipeline_ops == {<<>>} \cup require_ops

\* The first cache check taken while the transcription lock is being held
\* for it: the lock is asked for inside _cache_lock.
do_transcribe_ops_lock_inside_cache ==
    { <<Acquire("_cache_lock"), Acquire("_transcription_lock"),
        Release("_transcription_lock"), Release("_cache_lock")>> }
    \cup { cache_get_ops \o <<Acquire("_transcription_lock")>> \o cache_get_ops
                \o <<Release("_transcription_lock")>> }

\* server.py:116-175: a hit at the first check (121-123); under the lock a
\* hit or an unsupported platform (129-134, 144-150); a pipeline that ends
\* in a failure or an exception, or in a success that is stored (136-175).
do_transcribe_ops ==
    { cache_get_ops }
    \cup { cache_get_ops \o <<Acquire("_transcription_lock")>> \o cache_get_ops
                \o <<Release("_transcription_lock")>> }
    \cup { cache_get_ops \o <<Acquire("_transcription_lock")>> \o cache_get_ops
                \o p \o <<Release("_transcription_lock")>> \o put :
           p \in pipeline_ops, put \in {<<>>, cache_put_ops} }

\* server.py:198-208: a missing url is answered without any lock.
transcribe_sync_ops == {<<>>} \cup do_transcribe_ops

\* server.py:211-237: the handler registers the job under _jobs_lock and
\* starts the worker, which writes the job under _jobs_lock unless
\* _do_transcribe raised.
transcribe_async_ops ==
    {<<>>}
    \cup { With("_jobs_lock") \o d \o w :
           d \in do_transcribe_ops, w \in {<<>>, With("_jobs_lock")} }

\* server.py:240-248
get_job_ops == { With("_jobs_lock") }

\* server.py:183-195: two with blocks, one after the other.
health_ops == { With("_cache_lock") \o With("_jobs_lock") }

\* What a thread may be started to do.
Programs ==
    transcribe_sync_ops \cup transcribe_async_ops \cup get_job_ops
        \cup health_ops \cup {preload_ops}

Running(t) == thread[t].st = "run" /\ thread[t].todo # <<>>
Op(t) == Head(thread[t].todo)
Held(t) == { l \in Locks : holder[l] = t }
Advance(t) == thread' = [thread EXCEPT ![t].todo = Tail(@)]

\* Threads are started in order.
StartThread(t, ops) ==
    /\ thread[t].st = "idle"
    /\ \A u \in Threads : u < t => thread[u].st # "idle"
    /\ thread' = [thread EXCEPT ![t] = [st |-> "run", todo |-> ops]]
    /\ UNCHANGED holder

\* Lock.acquire(): blocks while another thread (or this one) holds it.
AcquireStep(t) ==
    /\ Running(t) /\ Op(t).op = "acquire"
    /\ holder[Op(t).lock] = Free
    /\ holder' = [holder EXCEPT ![Op(t).lock] = t]
    /\ Advance(t)

\* The end of a with block.
ReleaseStep(t) ==
    /\ Running(t) /\ Op(t).op = "release"
    /\ holder[Op(t).lock] = t
    /\ holder' = [holder EXCEPT ![Op(t).lock] = Free]
    /\ Advance(t)

\* The load ends (by return or by exception) and future.result() comes back.
WaitStep(t) ==
    /\ Running(t) /\ Op(t).op = "wait"
    /\ Advance(t)
    /\ UNCHANGED holder

NextLocks ==
    \/ \E t \in Threads, ops \in Programs :
            StartThread(t, ops) /\ UNCHANGED <<srvVars, mgrVars, probe, hl, pipeVars, rateVars>>
    \/ \E t \in Threads : AcquireStep(t) /\ UNCHANGED <<srvVars, mgrVars, probe, hl, pipeVars, rateVars>>
    \/ \E t \in Threads : ReleaseStep(t) /\ UNCHANGED <<srvVars, mgrVars, probe, hl, pipeVars, rateVars>>
    \/ \E t \in Threads : WaitStep(t) /\ UNCHANGED <<srvVars, mgrVars, probe, hl, pipeVars, rateVars>>

SpecLocks == Init /\ [][NextLocks]_vars

(***************************************************************************)
(* _rate_limit (transcript_extractor.py:55-64), called first thing by      *)
(* extract_youtube (244), extract_tiktok (310) and extract_facebook (395), *)
(* one call at a time: the server runs the pipelines of extractor_yt       *)
(* under the transcription lock.                                           *)
(***************************************************************************)
RatePlatforms == {"youtube", "tiktok", "facebook"}

\* A table without delays.
min_delay_none(platform) == 0

\* transcript_extractor.py:35-40
min_delay(platform) ==
    IF platform = "youtube" THEN 2
    ELSE IF platform = "tiktok" THEN 3
    ELSE IF platform = "facebook" THEN 3
    ELSE 4

\* transcript_extractor.py:57-61: the time is read; a platform asked for
\* before, less than its delay ago, makes the call sleep for the rest.
rate_limit_enter(platform) ==
    /\ rl.pc \in {"idle", "done"}
    /\ LET prev == IF platform \in DOMAIN last_request
                      THEN last_request[platform] ELSE NoTime
           elapsed == clock - prev
       IN  rl' = [pc |-> IF prev # NoTime /\ elapsed < min_delay(platform)
                            THEN "sleep" ELSE "stamp",
                  platform |-> platform, now |-> clock, prev |-> prev,
                  sleep_time |-> IF prev # NoTime /\ elapsed < min_delay(platform)
                                    THEN min_delay(platform) - elapsed ELSE 0]
    /\ UNCHANGED <<clock, last_request>>

\* transcript_extractor.py:62: time.sleep(sleep_time) returns after at
\* least sleep_time seconds.
rate_limit_sleep ==
    /\ rl.pc = "sleep"
    /\ \E d \in rl.sleep_time..(MaxClock - clock) : clock' = clock + d
    /\ rl' = [rl EXCEPT !.pc = "stamp"]
    /\ UNCHANGED last_request

\* transcript_extractor.py:64: the time is read again and recorded; the
\* pipeline's work begins.
rate_limit_stamp ==
    /\ rl.pc = "stamp"
    /\ last_request' = [p \in DOMAIN last_request \cup {rl.platform} |->
                           IF p = rl.platform THEN clock ELSE last_request[p]]
    /\ rl' = [rl EXCEPT !.pc = "done"]
    /\ UNCHANGED clock

\* A second passes, wherever the call stands.
TimePasses ==
    /\ clock < MaxClock
    /\ clock' = clock + 1
    /\ UNCHANGED <<last_request, rl>>

NextRate ==
    \/ \E p \in RatePlatforms :
            rate_limit_enter(p) /\ UNCHANGED <<srvVars, mgrVars, probe, hl, pipeVars, lockVars>>
    \/ rate_limit_sleep /\ UNCHANGED <<srvVars, mgrVars, probe, hl, pipeVars, lockVars>>
    \/ rate_limit_stamp /\ UNCHANGED <<srvVars, mgrVars, probe, hl, pipeVars, lockVars>>
    \/ TimePasses /\ UNCHANGED <<srvVars, mgrVars, probe, hl, pipeVars, lockVars>>

SpecRate == Init /\ [][NextRate]_vars


(***************************************************************************)
(* Properties.                                                             *)
(***************************************************************************)
Key(r) == _normalize_url(url[r])
IsSuccess(x) == Get(x, "success", FALSE)
IsCached(x) == Get(x, "cached", FALSE)
\* r's pipeline has handed back a result without "error".
PipelineSucceeded(r) == result[r] # NoResult /\ "error" \notin DOMAIN result[r]
\* r's pipeline has handed back a result carrying "error".
PipelineFailed(r) == result[r] # NoResult /\ "error" \in DOMAIN result[r]
\* r has entered a platform pipeline.
RanPipeline(r) ==
    \/ pc[r] \in {"pipeline", "post", "dead"}
    \/ result[r] # NoResult
    \/ http[r] = 500
\* r's thread takes the step.
Steps(r) == pc'[r] # pc[r]
\* The cache holds an entry for u that _cache_get must still return.
Fresh(u) ==
    /\ _normalize_url(u) \in DOMAIN cache
    /\ now - cache[_normalize_url(u)].ts <= CACHE_TTL
\* The cache holds an entry for u older than the TTL.
Expired(u) ==
    /\ _normalize_url(u) \in DOMAIN cache
    /\ now - cache[_normalize_url(u)].ts > CACHE_TTL

\* C1: at most one platform pipeline body executes at any time, whatever the
\* urls and handlers of the requests; the request inside it (and the one at
\* the second cache check) holds the transcription lock.
C1_MutualExclusion ==
    /\ Cardinality({r \in Reqs : pc[r] = "pipeline"}) <= 1
    /\ \A r \in Reqs : pc[r] \in {"check2", "pipeline"} => tlock = r

\* A sync and an async request for different urls: one inside its pipeline,
\* the other waiting for the lock.
C1_Witness ==
    \E r, q \in Reqs :
        /\ pc[r] = "pipeline" /\ pc[q] = "lock"
        /\ Key(r) # Key(q)
        /\ kind[r] # kind[q]
        /\ identify_platform(url[q]) \in {"youtube", "facebook"}

\* C2 (as claimed): while no entry can have expired, two requests for the
\* same url never both run the pipeline when the first run succeeded: the
\* second finds the first one's result at its cache check under the lock.
C2_CoalescedOnce ==
    \A r, q \in Reqs :
        (/\ r # q
         /\ Key(r) = Key(q)
         /\ now <= CACHE_TTL
         /\ PipelineSucceeded(r))
        => ~(RanPipeline(r) /\ RanPipeline(q))

\* C3: a request whose first cache check finds an entry not older than
\* CACHE_TTL returns that entry's response with cached = TRUE at once: it
\* does not touch the transcription lock, enters no pipeline and leaves the
\* cache as it is; and every entry is the response of a successful run.
C3_CacheHit ==
    /\ [][\A r \in Reqs :
            (pc[r] = "check1" /\ Steps(r) /\ Fresh(url'[r])) =>
                /\ resp'[r] = [cache[_normalize_url(url'[r])].data EXCEPT !.cached = TRUE]
                /\ resp'[r].transcript = cache[_normalize_url(url'[r])].data.transcript
                /\ pc'[r] \in {"done", "write_status"}
                /\ result'[r] = NoResult
                /\ tlock' = tlock
                /\ cache' = cache]_vars
    /\ [](\A k \in DOMAIN cache :
            IsSuccess(cache[k].data) /\ ~IsCached(cache[k].data))

\* A request answered from the cache with the transcript another request's
\* pipeline run produced, the entry being exactly CACHE_TTL old.
C3_Witness ==
    \E r, q \in Reqs :
        /\ r # q
        /\ pc[r] = "done" /\ http[r] = 200
        /\ IsCached(resp[r])
        /\ result[r] = NoResult
        /\ PipelineSucceeded(q)
        /\ resp[r].transcript = result[q].transcript
        /\ Key(r) \in DOMAIN cache
        /\ now - cache[Key(r)].ts = CACHE_TTL

\* C4: the step that returns a pipeline's failure leaves the cache
\* unchanged, and every cache entry is the response built from a pipeline
\* result without "error": a failure is never stored.
C4_FailureNotCached ==
    /\ [][\A r \in Reqs :
            (pc[r] = "post" /\ Steps(r) /\ PipelineFailed(r)) =>
                /\ cache' = cache
                /\ ~IsSuccess(resp'[r])
                /\ resp'[r].error = result[r].error]_vars
    /\ [](\A k \in DOMAIN cache :
            \E q \in Reqs :
                /\ Key(q) = k
                /\ PipelineSucceeded(q)
                /\ cache[k].data.transcript = result[q].transcript)

\* One request's failure has been returned, the cache holds nothing for its
\* url, and another request for the same url is inside the pipeline.
C4_Witness ==
    \E r, q \in Reqs :
        /\ r # q
        /\ Key(r) = Key(q)
        /\ pc[q] = "done" /\ http[q] = 502
        /\ PipelineFailed(q)
        /\ Key(q) \notin DOMAIN cache
        /\ pc[r] = "pipeline"

\* C5: a cache check (the first, or the one under the lock) that finds an
\* entry older than CACHE_TTL removes it and goes on as on a miss: the first
\* check proceeds to the lock, the second enters the pipeline.
C5_ExpiredIsAbsent ==
    [][\A r \in Reqs :
        (pc[r] \in {"check1", "check2"} /\ Steps(r) /\ Expired(url'[r])) =>
            /\ _normalize_url(url'[r]) \notin DOMAIN cache'
            /\ resp'[r] = resp[r]
            /\ pc[r] = "check1" => pc'[r] = "lock"
            /\ pc[r] = "check2" => pc'[r] = "pipeline"]_vars

\* A request is inside the pipeline for a url that an ended request had put
\* into the cache: the entry expired and was removed.
C5_Witness ==
    \E r, q \in Reqs :
        /\ r # q
        /\ Key(r) = Key(q)
        /\ pc[q] = "done" /\ IsSuccess(resp[q]) /\ ~IsCached(resp[q])
        /\ Key(r) \notin DOMAIN cache
        /\ pc[r] = "pipeline"
        /\ now = 2 * CACHE_TTL

\* C6: a job is created processing with no result; its status only changes
\* from processing to completed; the result is attached in the same
\* critical section of _jobs_lock (whenever the lock is free, a job is
\* completed exactly when it has a result); a completed job with its result
\* never changes again, and no job is removed.
C6_JobLifecycle ==
    [][/\ \A j \in DOMAIN jobs :
            /\ j \in DOMAIN jobs'
            /\ jobs'[j].status # jobs[j].status =>
                   jobs[j].status = "processing" /\ jobs'[j].status = "completed"
            /\ (jobs[j].status = "completed" /\ jobs[j].result # NoResult) =>
                   jobs'[j] = jobs[j]
            /\ jobs'[j].status = "processing" => jobs'[j].result = NoResult
       /\ \A j \in DOMAIN jobs' \ DOMAIN jobs :
            jobs'[j].status = "processing" /\ jobs'[j].result = NoResult
       /\ jlock' = Free =>
            \A j \in DOMAIN jobs' :
                jobs'[j].status = "completed" <=> jobs'[j].result # NoResult]_vars

\* A job completed with its worker's response attached.
C6_Witness ==
    \E r \in Reqs :
        /\ job[r] \in DOMAIN jobs
        /\ jobs[job[r]].status = "completed"
        /\ jobs[job[r]].result = resp[r]
        /\ resp[r] # NoResult
        /\ jlock = Free

\* C7 (as claimed): once an async request's worker thread has ended, its
\* job is completed with a result attached, whatever the attempt's outcome.
C7_EndedWorkerCompletedJob ==
    \A r \in Reqs :
        (kind[r] = "async" /\ job[r] # NoJob /\ Finished(r)) =>
            /\ jobs[job[r]].status = "completed"
            /\ jobs[job[r]].result # NoResult

\* C8 (as claimed): get_job for a known id answers processing, or completed
\* together with the result; it never fails.
C8_GetJobConsistent ==
    /\ gj.out # "error"
    /\ gj.out = "completed" => gj.body # NoResult

\* C9: transcribe_async can take the next slot whenever _jobs_lock is free,
\* whoever holds the transcription lock; its step leaves the transcription
\* lock alone, registers a processing job and answers 202; and a returned
\* job id is in the job map from then on.
C9_AsyncReturnsAtOnce ==
    /\ [](\A r \in Reqs :
            (NextSlot(r) /\ jlock = Free) =>
                ENABLED (\E in \in JobRequests :
                            BodyUrl(in) # Blank /\ transcribe_async(r, in)))
    /\ [][\A r \in Reqs :
            (kind[r] = "none" /\ kind'[r] = "async" /\ url'[r] # Blank) =>
                /\ tlock' = tlock
                /\ pc' = [pc EXCEPT ![r] = "check1"]
                /\ http'[r] = 202
                /\ job'[r] \in DOMAIN jobs' \ DOMAIN jobs
                /\ jobs'[job'[r]].status = "processing"]_vars
    /\ [](\A r \in Reqs :
            job[r] # NoJob =>
                /\ job[r] \in DOMAIN jobs
                /\ jobs[job[r]].status \in {"processing", "completed"})

\* A job was registered while another request held the transcription lock,
\* which that request still holds inside its pipeline.
C9_Witness ==
    \E r, q \in Reqs :
        /\ r # q
        /\ kind[r] = "async" /\ http[r] = 202
        /\ heldAtSubmit[r] = q
        /\ tlock = q /\ pc[q] = "pipeline"
        /\ job[r] \in DOMAIN jobs
        /\ jobs[job[r]].status = "processing"

\* The labels by which identify_platform knows a platform.
PlatformLabels == {"youtube", "youtu", "tiktok", "facebook", "fb", "douyin"}
NoPlatform(u) ==
    u # Blank /\ \A i \in 1..Len(u.host) : u.host[i] \notin PlatformLabels

\* C10: a request whose url names no supported platform never enters a
\* pipeline, changes the cache in none of its steps, and returns
\* success = FALSE with the error "Unsupported platform: unknown".
C10_UnsupportedPlatform ==
    [][\A r \in Reqs :
        (Steps(r) /\ NoPlatform(url'[r])) =>
            /\ cache' = cache
            /\ pc'[r] \notin {"pipeline", "post", "dead"}
            /\ result'[r] = NoResult
            /\ pc'[r] \in {"done", "write_status"} =>
                   resp'[r] = [success |-> FALSE,
                               error |-> <<"Unsupported platform: ", "unknown">>,
                               cached |-> FALSE]]_vars

\* A sync request for an unsupported url answered 502 with that error.
C10_Witness ==
    \E r \in Reqs :
        /\ NoPlatform(url[r])
        /\ pc[r] = "done" /\ http[r] = 502
        /\ resp[r].error = <<"Unsupported platform: ", "unknown">>
        /\ ~RanPipeline(r)

\* C11: a request whose url names no supported platform neither holds the
\* transcription lock nor stands waiting for it while another request
\* holds it.
C11_UnsupportedSkipsLock ==
    \A r \in Reqs :
        NoPlatform(url[r]) =>
            /\ tlock # r
            /\ ~(pc[r] = "lock" /\ tlock # Free)

\* Thread c has returned from require_model.
RequireReturned(c) == call[c].op = "require" /\ call[c].pc = "idle"

\* C12: a model that require_model(name) has returned was made by a load
\* of name.
C12_RequireReturnsNamedModel ==
    \A c \in Callers :
        (RequireReturned(c) /\ call[c].ret # NoModel) =>
            call[c].ret.name = call[c].name

\* The loads of name n that are queued or running.
Outstanding(n) ==
    {i \in 1..Len(_executor) :
        _executor[i].name = n /\ _executor[i].state \in {"pending", "running"}}
\* Every call made so far named n, and no load has failed.
OnlyName(n) ==
    \A i \in 1..Len(_executor) :
        _executor[i].name = n /\ _executor[i].state # "failed"
\* Thread c makes the call op(n) in this step.
Calls(c, op, n) ==
    /\ call[c].pc = "idle"
    /\ call'[c] # call[c]
    /\ call'[c].op = op /\ call'[c].name = n

LastLoadFailed(n) ==
    \E i \in 1..Len(_executor) :
        /\ _executor[i].name = n /\ _executor[i].state = "failed"
        /\ \A j \in (i + 1)..Len(_executor) : _executor[j].name # n

\* C14: a require_model waiting on a load that failed returns None and
\* clears the tracked load; a require_model(n) made when the last load of n
\* has failed and no load is tracked submits a fresh load of n and waits for
\* it; and a require_model whose load succeeded returns that load's model.
C14_FailureThenFreshLoad ==
    [][\A c \in Callers :
        /\ (call[c].pc = "wait" /\ call'[c].pc = "idle"
                /\ _executor[call[c].future].state = "failed") =>
              (call'[c].ret = NoModel /\ _model_future' = NoFuture)
        /\ (call[c].pc = "wait" /\ call'[c].pc = "idle"
                /\ _executor[call[c].future].state = "done") =>
              call'[c].ret = Instance(call[c].name, call[c].future)
        /\ \A n \in Names :
              (Calls(c, "require", n) /\ LastLoadFailed(n)
                    /\ _model_future = NoFuture) =>
                 /\ _executor' = submit(n)
                 /\ call'[c].pc = "wait"
                 /\ call'[c].future = Len(_executor')]_vars

\* The manager tracks name n with a resident model or a load in progress.
Tracked(n) ==
    _model_name = n /\ (_model # NoModel \/ _model_future # NoFuture)

C16_OneOutstandingLoadPerName ==
    \A n \in Names : Cardinality(Outstanding(n)) <= 1

\* C17: a resident model was loaded under the tracked name.
C17_ResidentMatchesTracked ==
    _model # NoModel => _model.name = _model_name

\* A call naming n comes while a load of another name is tracked and has
\* not ended.
OtherLoadInProgress(n) ==
    /\ _model_name # n
    /\ _model_future # NoFuture
    /\ _executor[_model_future].state \in {"pending", "running"}

\* C18 as stated: a load queued while a load of another name runs can be
\* started without waiting for that load to end.
C18_LoadRunsWithoutWaiting ==
    \A i, j \in 1..Len(_executor) :
        (/\ _executor[i].state = "pending"
         /\ _executor[j].state = "running"
         /\ _executor[j].name # _executor[i].name) => ENABLED LoadStart(i)

\* C18, amended: a preload_model or require_model naming n while a load of
\* another name is in progress submits and tracks a load of n in that very
\* step, and the call is never held back; but the executor runs one load
\* at a time in submission order: a load starts only when every load
\* submitted before it has ended.
C18_LoadsRunOneAtATime ==
    /\ [](Cardinality({i \in 1..Len(_executor) :
                        _executor[i].state = "running"}) <= 1)
    /\ [](\A c \in Callers, n \in Names :
            (call[c].pc = "idle" /\ Len(_executor) < MaxLoads) =>
                ENABLED preload_model(c, n) /\ ENABLED require_model(c, n))
    /\ [][\A c \in Callers, n \in Names :
            ((Calls(c, "preload", n) \/ Calls(c, "require", n))
                    /\ OtherLoadInProgress(n)) =>
                /\ _executor' = submit(n)
                /\ _model_future' = Len(_executor')
                /\ _model_name' = n]_vars
    /\ [][\A i \in 1..Len(_executor) :
            (_executor[i].state = "pending" /\ _executor'[i].state = "running") =>
                \A j \in 1..(i - 1) : _executor[j].state \in {"done", "failed"}]_vars

\* The tracked load of one name waits in the queue while a load of another
\* name, submitted before it, runs.
C18_Witness ==
    \E i, j \in 1..Len(_executor) :
        /\ i < j
        /\ _executor[i].state = "running" /\ _executor[j].state = "pending"
        /\ _executor[i].name # _executor[j].name
        /\ _model_future = j /\ _model_name = _executor[j].name

\* Both URLs of the probe have been normalized.
BothKeys == probe.key # NoResult /\ probe.otherKey # NoResult
\* rest has a "/" right before its fragment (or at its end).
HasSlash(rest) ==
    LET h == Find(rest, "#", 1)
        nofrag == IF h = 0 THEN rest ELSE Before(rest, h) IN
    nofrag # <<>> /\ nofrag[Len(nofrag)] = "/"
\* b ends in a "?" with no query after it, or in a ";" with no parameters
\* after it.
EndsInEmptyMarker(b) ==
    /\ b # <<>>
    /\ \/ Find(b, "?", 1) = Len(b)
       \/ /\ Find(b, "?", 1) = 0
          /\ Find(b, ";", IF RFind(b, "/") > 0 THEN RFind(b, "/") ELSE 1) = Len(b)

\* C19: normalizing a normalized URL gives the same URL.
C19_Idempotent ==
    probe.rekey # NoResult => probe.rekey = probe.key

Succeeded(run) ==
    /\ run.pc = "done" /\ run.out.tag = "return"
    /\ "success" \in DOMAIN run.out.value /\ run.out.value.success

\* The caption and speech texts inside the transcript a success carries.
SpokenParts(run) ==
    { run.out.value.transcript[j] : j \in 1..Len(run.out.value.transcript) }
        \cap { t \in { run.out.value.transcript[j] :
                          j \in 1..Len(run.out.value.transcript) } :
                 t.of \in {"captions", "speech"} }

\* C21: in every pipeline, on the captions path and on the audio path, a
\* caption text or speech transcript of 20 characters or fewer is rejected:
\* no success carries one.
C21_ShortTextRejected ==
    Succeeded(px) => \A t \in SpokenParts(px) : t.len > 20

\* The invocation handed back a transcript made by Whisper from a candidate.
UsedCandidate(run) ==
    /\ Succeeded(run)
    /\ run.out.value.source \in {"douyin_breakthrough_whisper",
                                 "facebook_direct_whisper_SUCCESS"}

\* C22: the candidates are tried in list order, each at most once; a
\* transcript handed back comes from the first candidate whose transcript is
\* longer than 20, that candidate is the one reported as used and the last
\* one tried.
C22_FirstAcceptableCandidateUsed ==
    px.pipeline \in {"douyin", "facebook_direct"} =>
        /\ \A j \in 1..Len(px.tried) : px.tried[j].cand = j
        /\ UsedCandidate(px) =>
             LET k == px.out.value.successful_video_url IN
             /\ k = Len(px.tried)
             /\ px.tried[k].got.len > 20
             /\ px.tried[k].got.cand = k
             /\ px.out.value.transcript = <<px.tried[k].got>>
             /\ \A j \in 1..(k - 1) : px.tried[j].got.len <= 20

\* The second candidate is used after the first gave a transcript of 20
\* characters.
C22_Witness ==
    /\ UsedCandidate(px)
    /\ px.out.value.successful_video_url = 2
    /\ px.tried[1].got.len = 20

\* The source tags the pipelines give a result made from captions.
SubtitleTags ==
    {"yt-dlp_subs_en", "yt-dlp_subs_vi", "yt-dlp_auto_subs+metadata",
     "douyin_yt-dlp_subs", "facebook_yt-dlp_subs"}

\* The scan has just read the subtitle file f.
ScanRead(f) ==
    /\ px.pc = "scan"
    /\ temp_dir[ExtractorOf(px.pipeline)] \ temp_dir'[ExtractorOf(px.pipeline)] = {f}

\* The captions check returns the text of f and the pipeline hands back a
\* success with a subtitle tag, without audio fetch or model call.
CaptionsHandedBack(f) ==
    /\ px'.pc = "done" /\ Succeeded(px')
    /\ px'.out.value.source \in SubtitleTags
    /\ px'.out.value.transcript[1] = Text("captions", f.len, f.inv, 0)
    /\ px'.called \cap {"audio", "model"} = {}

\* C23 as stated: when the captions check returns cleaned text longer than
\* 20 characters the pipeline hands back a success with the subtitle tag
\* whose transcript equals that text, and neither audio fetcher nor
\* transcriber was invoked.
C23_TranscriptEqualsCaptions ==
    [][\A f \in Dir : ScanRead(f) /\ f.len > 20 =>
          /\ CaptionsHandedBack(f)
          /\ Len(px'.out.value.transcript) = 1]_vars

\* C23 amended: the captions check hands back exactly the texts longer than
\* 20; the result is a success with the pipeline's subtitle tag and without
\* audio fetch or model call; its transcript is the caption text, in the
\* TikTok pipeline followed by the metadata block.
C23_CaptionsShortCircuit ==
    [][\A f \in Dir : ScanRead(f) =>
          IF f.len > 20
          THEN /\ CaptionsHandedBack(f)
               /\ px'.out.value.transcript =
                    IF px.pipeline = "tiktok"
                    THEN <<Text("captions", f.len, f.inv, 0), MetadataText(px.inv)>>
                    ELSE <<Text("captions", f.len, f.inv, 0)>>
          ELSE px'.pc = "scan"]_vars

\* A TikTok invocation handed back its 25 characters of captions.
C23_Witness ==
    /\ Succeeded(px) /\ px.pipeline = "tiktok"
    /\ px.out.value.source = "yt-dlp_auto_subs+metadata"
    /\ px.out.value.transcript[1] = Text("captions", 25, px.inv, 0)
    /\ px.called \cap {"audio", "model"} = {}

\* C24: whatever the collaborators do, a pipeline invocation ends by
\* handing back a result value; it never raises.
C24_PipelineNeverRaises ==
    px.pc = "done" => px.out.tag = "return"

\* The text of u is empty or made of blanks only.
BlankText(u) ==
    /\ \A i \in 1..Len(u.host) : u.host[i] = " "
    /\ \A i \in 1..Len(u.rest) : u.rest[i] = " "

\* Request r was a POST /api/transcribe and has been answered.
SyncAnswered(r) == kind[r] = "sync" /\ pc[r] = "done"

\* C25: POST /api/transcribe answers 400 exactly when the url is missing or
\* blank, and then neither cache, lock nor pipeline was touched; it answers
\* 200 exactly when the result has success = true, and 502 for every
\* failure result.
C25_StatusCodes ==
    /\ [](\A r \in Reqs : SyncAnswered(r) =>
            /\ http[r] = 400 <=> BlankText(url[r])
            /\ http[r] = 400 => result[r] = NoResult /\ resp[r] = NoResult
            /\ http[r] = 200 <=> Get(resp[r], "success", FALSE)
            /\ (resp[r] # NoResult /\ ~ resp[r].success) => http[r] = 502)
    /\ [][\A r \in Reqs : http[r] = 0 /\ http'[r] = 400 =>
            UNCHANGED <<cache, tlock, result, resp>>]_vars

\* One request was answered 400, another 502 for a failure result.
C25_Witness ==
    \E r, q \in Reqs :
        /\ SyncAnswered(r) /\ http[r] = 400 /\ url[r] = Blank
        /\ SyncAnswered(q) /\ http[q] = 502 /\ ~ resp[q].success

\* C26: get_job with an id that was never issued answers 404 (not found),
\* does not fail and leaves the job map as it was.
C26_UnknownJobNotFound ==
    [][(gj.pc = "idle" /\ gj' # gj /\ gj'.id \notin DOMAIN jobs) =>
          /\ gj'.out = "404" /\ gj'.pc = "idle" /\ gj'.body = NoResult
          /\ jobs' = jobs]_vars

\* A job has been issued and get_job was asked for another id.
C26_Witness ==
    /\ jobs # EmptyMap
    /\ gj.pc = "idle" /\ gj.out = "404" /\ gj.id \notin DOMAIN jobs

\* C27: health reports as cache_size the number of entries in the cache map
\* and as active_jobs the number of jobs whose status is processing when
\* they are counted; a job is either processing or completed, so it stops
\* being counted exactly when it becomes completed.
C27_HealthCounts ==
    /\ [](\A id \in DOMAIN jobs : jobs[id].status \in {"processing", "completed"})
    /\ [][/\ (hl.pc = "idle" /\ hl'.pc = "jobs") =>
                hl'.cache_size = Cardinality(DOMAIN cache)
          /\ (hl.pc = "jobs" /\ hl'.pc = "idle") =>
                /\ hl'.cache_size = hl.cache_size
                /\ hl'.active_jobs =
                     Cardinality(DOMAIN jobs) -
                     Cardinality({ id \in DOMAIN jobs :
                                     jobs[id].status = "completed" })]_vars

\* health answered while one of two jobs was completed and its result
\* cached: one active job, one cache entry.
C27_Witness ==
    /\ hl.pc = "idle" /\ hl.active_jobs = 1 /\ hl.cache_size = 1
    /\ Cardinality(DOMAIN jobs) = 2
    /\ \E id \in DOMAIN jobs : jobs[id].status = "completed"
    /\ ActiveJobs(jobs) = 1

\* C28: in every pipeline the captions check comes before any metadata
\* fetch, locate strategy, audio fetch or model call, and no invocation
\* ends without having made it.
C28_CaptionsCheckFirst ==
    /\ "captions" \notin px.called =>
          px.called \cap {"metadata", "locate", "audio", "model"} = {}
    /\ px.pc = "done" => "captions" \in px.called

\* Locate succeeded and the candidate loop ended without accepting any
\* candidate: each gave no audio, no transcript or at most 20 characters.
AllCandidatesRejected(run) ==
    /\ run.pipeline \in {"douyin", "facebook_direct"}
    /\ run.pc = "done" /\ run.cands > 0
    /\ \A j \in 1..Len(run.tried) : run.tried[j].got.len <= 20

\* C29: when locate succeeded but no candidate gave a transcript above the
\* threshold, the pipeline hands back a success with the metadata-only tag
\* and a synthesized transcript.
C29_MetadataOnlyResult ==
    AllCandidatesRejected(px) =>
        /\ Succeeded(px)
        /\ px.out.value.source \in {"douyin_breakthrough_metadata",
                                    "facebook_direct_metadata"}
        /\ px.out.value.transcript = <<MetadataText(px.inv)>>

\* C30: once an invocation has ended the scratch storage holds none of its
\* files, and the caption or speech text an invocation hands back was read
\* or transcribed from a file fetched by that same invocation.
C30_OwnFilesOnly ==
    /\ px.pc \in {"idle", "done"} => \A e \in Extractors : temp_dir[e] = {}
    /\ Succeeded(px) => \A t \in SpokenParts(px) : t.inv = px.inv

\* C31: the audio file fetched for a candidate (or for the video) is gone
\* once its transcription step has ended, whatever the outcome: an audio
\* file is in temp_dir only while its transcription is pending.
C31_AudioDiscarded ==
    \A e \in Extractors : \A f \in temp_dir[e] :
        f.kind = "audio" =>
            /\ px.pc \in {"transcribe", "candidate_transcribe"}
            /\ f = px.audio_file

\* C32: the locate chain stops at the first method that yields at least
\* one candidate: the candidate list of the selected method is never
\* empty, and the pipeline falls back only after every method was tried.
C32_FirstMethodWithCandidates ==
    /\ px.selected # 0 => px.cands >= 1
    /\ px.pc = "fallback" => px.method = 3

\* The Facebook direct invocation ended on its last-resort path.
LastResortEnded(run) ==
    /\ run.pipeline = "facebook_direct" /\ run.pc = "done"
    /\ run.method = 3 /\ run.selected = 0

\* C33: when every locate method failed, the Facebook direct pipeline
\* hands back a success with source facebook_ytdlp_whisper if the
\* last-resort transcript is longer than 20 characters, and only otherwise
\* the failure 'ALL ATTACKS BLOCKED BY FACEBOOK'.
C33_LastResortTranscript ==
    LastResortEnded(px) =>
        IF px.transcript.len > 20
        THEN /\ Succeeded(px)
             /\ px.out.value.source = "facebook_ytdlp_whisper"
             /\ px.out.value.transcript = <<px.transcript>>
        ELSE px.out = Returned([success |-> FALSE,
                                error |-> "ALL ATTACKS BLOCKED BY FACEBOOK"])

\* Every locate method of the invocation failed and the invocation ended.
LocateExhausted(run) ==
    /\ run.pipeline \in {"douyin", "facebook_direct"} /\ run.pc = "done"
    /\ run.method = 3 /\ run.selected = 0

\* The result is a failure the coordinator reports as one and does not
\* cache: server.py:154 finds "error" in it and the response built at
\* 155-161 has success = false.
ReportedAsFailure(run) ==
    /\ run.out.tag = "return"
    /\ ~ Get(run.out.value, "success", FALSE)
    /\ HasError(run.out.value)
    /\ ~ FailureResponse(run.out.value, "douyin").success

\* The result is made of a last-resort transcription.
LastResortSuccess(run) ==
    /\ Succeeded(run) /\ run.out.value.source = "facebook_ytdlp_whisper"

C35_LockReleased ==
    /\ [](\A r \in Reqs : tlock = r => pc[r] \in {"check2", "pipeline"})
    /\ \A r \in Reqs : (pc[r] = "lock") ~> (tlock = r)

\* A request submitted while another held the lock holds it now, the other
\* one's pipeline having raised.
C35_Witness ==
    \E r, q \in Reqs :
        /\ r # q
        /\ heldAtSubmit[r] = q
        /\ tlock = r
        /\ pc[q] = "done" /\ http[q] = 500

\* Thread t can take its next step: it is not asking for a held lock.
CanStep(t) ==
    /\ Running(t)
    /\ Op(t).op = "acquire" => holder[Op(t).lock] = Free

\* C36: the locks are taken in an acyclic order: the transcription lock
\* and the job lock are asked for by a thread holding no lock, the cache
\* lock and the manager's lock by a thread holding at most the
\* transcription lock, and the job lock is never held together with
\* another; and in no interleaving of sync requests, async workers, get_job,
\* health, preload_model and require_model are all unfinished threads
\* blocked.
C36_NoDeadlock ==
    /\ \A t \in Threads :
        "_jobs_lock" \in Held(t) => Held(t) = {"_jobs_lock"}
    /\ \A t \in Threads :
        (Running(t) /\ Op(t).op = "acquire") =>
            IF Op(t).lock \in {"_transcription_lock", "_jobs_lock"}
                THEN Held(t) = {}
                ELSE Held(t) \subseteq {"_transcription_lock"}
    /\ (\E t \in Threads : Running(t)) => \E t \in Threads : CanStep(t)

\* A thread inside require_model under the transcription lock, another
\* thread holding the job lock that will ask for the transcription lock.
C36_Witness ==
    \E t, u \in Threads :
        /\ t # u
        /\ Held(t) = {"_transcription_lock", "_lock"}
        /\ Held(u) = {"_jobs_lock"}
        /\ \E i \in 1..Len(thread[u].todo) :
                thread[u].todo[i] = Acquire("_transcription_lock")

\* C37: a cache check that finds an entry not older than CACHE_TTL leaves
\* the cache as it is (the entry's timestamp and stored response included),
\* returns the stored response with every field as stored except cached,
\* which is TRUE in the returned copy and stays FALSE in the entry; and no
\* cache check changes an entry that stays in the cache, so reading an
\* entry never moves the time at which it expires.
C37_HitLeavesEntry ==
    /\ [][\A r \in Reqs :
            (pc[r] \in {"check1", "check2"} /\ Steps(r) /\ Fresh(url'[r])) =>
                LET key == _normalize_url(url'[r]) IN
                /\ cache' = cache
                /\ DOMAIN resp'[r] = DOMAIN cache[key].data
                /\ \A f \in DOMAIN resp'[r] :
                        resp'[r][f] = IF f = "cached" THEN TRUE ELSE cache[key].data[f]
                /\ cache[key].data.cached = FALSE]_vars
    /\ [][\A k \in DOMAIN cache :
            (k \in DOMAIN cache' /\ cache'[k] # cache[k]) =>
                \E r \in Reqs : pc[r] = "post" /\ Steps(r)]_vars

\* A request was answered from an entry that has expired since: the read
\* did not prolong the entry's life.
C37_Witness ==
    \E r \in Reqs :
        /\ pc[r] \in {"done", "write_status"}
        /\ IsCached(resp[r])
        /\ Expired(url[r])
        /\ cache[Key(r)].ts = 0

\* C38: a cache check finds the entry stored under the normalized url
\* whatever the request's language hint, and answers with the language that
\* entry records; every answer from the cache is the response of a request
\* for the same normalized url whose pipeline succeeded, with only cached
\* differing, so its language is the one that request recorded.
C38_LanguageOfPopulator ==
    /\ [][\A r \in Reqs :
            (/\ pc[r] \in {"check1", "check2"} /\ Steps(r)
             /\ _normalize_url(url'[r]) \in DOMAIN cache
             /\ now - cache[_normalize_url(url'[r])].ts <= CACHE_TTL) =>
                /\ pc'[r] \in {"done", "write_status"}
                /\ IsCached(resp'[r])
                /\ resp'[r].language = cache[_normalize_url(url'[r])].data.language]_vars
    /\ [](\A r \in Reqs :
            IsCached(resp[r]) =>
                \E q \in Reqs :
                    /\ q # r /\ Key(q) = Key(r)
                    /\ PipelineSucceeded(q)
                    /\ ~ IsCached(resp[q])
                    /\ resp[r] = [resp[q] EXCEPT !.cached = TRUE]
                    /\ resp[r].language =
                          IF lang[q] # NoLang THEN lang[q] ELSE result[q].language)

\* A request with the hint "en" answered from the cache with the language
\* "vi" of the request that ran the pipeline, the two urls differing.
C38_Witness ==
    \E r, q \in Reqs :
        /\ lang[r] = "en" /\ lang[q] = "vi"
        /\ url[r] # url[q]
        /\ IsCached(resp[r])
        /\ resp[r].language = "vi"
        /\ PipelineSucceeded(q)

\* Load i has failed, is the tracked load, and no require_model waits on
\* it: it was submitted by preload_model (a require_model that submits a
\* load waits on it until it has seen how the load ended), and no
\* require_model has observed its failure.
UnobservedPreloadFailure(i) ==
    /\ _model_future = i
    /\ _executor[i].state = "failed"
    /\ \A c \in Callers : ~(call[c].pc = "wait" /\ call[c].future = i)

\* Every load submitted so far is a load of n.
AllLoadsOf(n) == \A i \in 1..Len(_executor) : _executor[i].name = n

\* C39 (as claimed): while a failed load of n that preload_model submitted
\* is unobserved and every call names n, the load stays the tracked one in
\* every step, preload_model(n) changes nothing and submits no load, and
\* require_model(n) submits no load and waits on the failed one (whose
\* failure it then returns as None).
C39_FailedPreloadStaysTracked ==
    [][\A i \in 1..Len(_executor) :
        (/\ UnobservedPreloadFailure(i)
         /\ AllLoadsOf(_executor[i].name)
         /\ \A c \in Callers : call'[c].name \in {NoName, _executor[i].name}) =>
            /\ _model_future' = i
            /\ _executor' = _executor
            /\ \A c \in Callers :
                Calls(c, "preload", _executor[i].name) =>
                    UNCHANGED <<_model_name, _model_future, _model, _executor>>
            /\ \A c \in Callers :
                Calls(c, "require", _executor[i].name) =>
                    call'[c].pc = "wait" /\ call'[c].future = i]_vars

\* The minimum delays the claim names, in seconds.
ClaimedDelay == [youtube |-> 2, tiktok |-> 3, facebook |-> 3]

\* C40: a call of _rate_limit for a platform asked for before records a
\* start time at least that platform's delay (2, 3, 3 seconds) after the
\* start time of the previous call for the platform, having asked
\* time.sleep for exactly the part of the delay not yet elapsed when it
\* read the time (and for nothing when the delay had elapsed); a call for
\* a platform not asked for before sleeps for nothing, whatever other
\* platforms were asked for.
C40_MinimumDelay ==
    /\ rl.pc = "done" /\ rl.prev # NoTime =>
            last_request[rl.platform] - rl.prev >= ClaimedDelay[rl.platform]
    /\ rl.pc # "idle" =>
        /\ rl.prev # NoTime =>
            rl.sleep_time =
                IF rl.now - rl.prev < ClaimedDelay[rl.platform]
                    THEN ClaimedDelay[rl.platform] - (rl.now - rl.prev) ELSE 0
        /\ rl.prev = NoTime => rl.sleep_time = 0 /\ rl.pc # "sleep"
    /\ \A p \in DOMAIN last_request : p \in RatePlatforms /\ last_request[p] <= clock

\* The second call for tiktok came one second after the first, slept, and
\* started exactly three seconds after it, a youtube call having started
\* in between.
C40_Witness ==
    /\ rl.pc = "done" /\ rl.platform = "tiktok"
    /\ rl.prev # NoTime /\ rl.now - rl.prev = 1 /\ rl.sleep_time = 2
    /\ last_request["tiktok"] - rl.prev = 3
    /\ "youtube" \in DOMAIN last_request
    /\ last_request["youtube"] = rl.prev

====
